---- MODULE Spec2Model ----
(***************************************************************************)
(* ez-env: the symmetric file cipher (crypto.EncryptFile, DecryptFile,     *)
(* IsEncryptedFile), the DEK wrapping (DEKManager.EncryptDEK, DecryptDEK)  *)
(* and the keyring with its file (crypto.Keyring, Save, LoadKeyring), as a *)
(* state machine whose actions are calls of these functions; and the       *)
(* commands built on them: the git filters clean and smudge with the       *)
(* shared key kept as a repository secret (crypto.KeyManager, package      *)
(* github), init, update-keys, and add and remove with the file            *)
(* .gitattributes.  The programs gh and git are not part of the            *)
(* repository: a run of a command is given what they answer.               *)
(*                                                                         *)
(* The Go standard library is not part of the repository.  Its primitives  *)
(* are modelled by their contracts, symbolically:                          *)
(*   - cipher.AEAD (AES-GCM): Seal yields len(plaintext)+16 bytes that     *)
(*     Open accepts only unaltered and only under the same key and nonce;  *)
(*   - rsa.EncryptOAEP / DecryptOAEP: a ciphertext opens only with the     *)
(*     private key of the pair, the same hash and the same label;          *)
(*   - crypto/rand: a read returns any bytes at all (it may repeat).       *)
(***************************************************************************)
EXTENDS Integers, Sequences, FiniteSets, TLC

VARIABLES
    encLog,   \* the successful EncryptFile calls so far, in order
    last,     \* the most recent call of the file cipher and what it returned
    dek,      \* DEKManager.rawKey (<<>> is nil)
    wrapLog,  \* the successful EncryptDEK calls so far
    lastDek,  \* the most recent DEK operation and what it returned
    collaborators,  \* Keyring.Collaborators: login -> Collaborator
    disk,     \* the file .gitenv_keyring
    lastKr,   \* the most recent keyring operation and what it returned
    generation, \* history: how far the sequence successful
                \* GenerateEncryptedDEKs, Save, LoadKeyring has come (stage),
                \* the raw key and the table that GenerateEncryptedDEKs left,
                \* the number of calls made so far, and whether the keyring
                \* was ever loaded from the file
    secret,   \* the repository secret EZENV_ENCRYPTION_KEY (<<>> is unset)
    lastFilter,  \* the most recent run of init, clean or smudge
    index,    \* the git index: how many times fresh content was staged
              \* through clean, and what the latest of these runs wrote
    proc,     \* the processes that work on .gitenv_keyring side by side
    gitattributes,  \* the file .gitattributes
    lastAttr  \* the most recent add or remove command and what it returned

vars ==
    <<encLog, last, dek, wrapLog, lastDek, collaborators, disk, lastKr,
      generation, secret, lastFilter, index, proc, gitattributes, lastAttr>>

\* the state of the keyring and of its file
keyringVars == <<collaborators, disk, lastKr, generation>>

\* the state of the commands: the filters with the repository secret, the
\* processes at the keyring file, and .gitattributes
filterVars == <<secret, lastFilter, index>>
attrVars == <<gitattributes, lastAttr>>
commandVars == <<filterVars, proc, attrVars>>

(***************************************************************************)
(* Program constants.                                                      *)
(***************************************************************************)
keySize == 32
nonceSize == 12
tagSize == 16
versionSize == 4

(***************************************************************************)
(* Bounds of the model.                                                    *)
(***************************************************************************)
MaxCalls == 2

(***************************************************************************)
(* Bytes.  A byte of data is either a literal value 0..255 or one byte of  *)
(* a Seal output (symbolic: it names the Seal that made it, its position   *)
(* in that output and the xor mask applied to it since).  Keys and the     *)
(* bytes read from rand.Reader never hold a sealed byte: they are kept as  *)
(* sequences of plain values 0..255, and Bytes() makes data of them.       *)
(***************************************************************************)
Lit(v) == [k |-> "lit", v |-> v]

Bytes(ints) == [i \in 1..Len(ints) |-> Lit(ints[i])]

Repeat(n, v) == [i \in 1..n |-> v]

GcmByte(key, nonce, plaintext, i) ==
    [k |-> "gcm", s |-> <<key, nonce, plaintext>>, i |-> i, x |-> 0]

RECURSIVE Xor(_, _)
Xor(a, b) ==
    IF a = 0 THEN b
    ELSE IF b = 0 THEN a
    ELSE ((a + b) % 2) + 2 * Xor(a \div 2, b \div 2)

\* b ^= m
XorByte(b, m) ==
    IF b.k = "lit" THEN Lit(Xor(b.v, m)) ELSE [b EXCEPT !.x = Xor(b.x, m)]

(***************************************************************************)
(* What a call returns: the bytes (nil is <<>>), the error ("" is nil) and *)
(* the library calls the function made on the way, in order.               *)
(***************************************************************************)
Res(out, err, lib) == [out |-> out, err |-> err, lib |-> lib]

ErrInvalidKeySize == "invalid key size"
ErrCreateCipher == "failed to create cipher"
ErrGenerateNonce == "failed to generate nonce"
ErrTooShort == "encrypted data too short"
ErrUnsupportedVersion == "unsupported version"
ErrDecrypt == "failed to decrypt"
\* a Go run-time panic: a slice expression past the end of the slice
PanicSliceBounds == "panic: slice bounds out of range"

(***************************************************************************)
(* The standard library, by contract.                                      *)
(***************************************************************************)
\* aes.NewCipher(key): a key of 16, 24 or 32 bytes, or KeySizeError
aesNewCipherOk(key) == Len(key) \in {16, 24, 32}

\* gcm.Seal(nil, nonce, plaintext, nil): ciphertext, then the 16-byte tag
gcmSeal(key, nonce, plaintext) ==
    [i \in 1..(Len(plaintext) + tagSize) |-> GcmByte(key, nonce, plaintext, i)]

\* gcm.Open(nil, nonce, ciphertext, nil): the plaintext of exactly the
\* unaltered output of a Seal under this key and this nonce; else an error
gcmOpen(key, nonce, ciphertext) ==
    IF /\ Len(ciphertext) >= tagSize
       /\ ciphertext[1].k = "gcm"
       /\ ciphertext = gcmSeal(key, nonce, ciphertext[1].s[3])
    THEN [ok |-> TRUE, plaintext |-> ciphertext[1].s[3]]
    ELSE [ok |-> FALSE, plaintext |-> <<>>]

\* A uint32 is kept as its two 16-bit halves, so that every value up
\* to 2^32 - 1 is represented without exceeding TLC's signed 32-bit integers.
U32(n) == [hi |-> (n \div 65536) % 65536, lo |-> n % 65536]

\* binary.BigEndian.PutUint32(b, v)
BigEndianPutUint32(v) ==
    << Lit(v.hi \div 256), Lit(v.hi % 256), Lit(v.lo \div 256), Lit(v.lo % 256) >>

\* binary.BigEndian.Uint32(b)
BigEndianUint32(b) ==
    [hi |-> b[1].v * 256 + b[2].v, lo |-> b[3].v * 256 + b[4].v]

\* s[lo:hi] of Go, 0-based, hi exclusive
Slice(s, lo, hi) == SubSeq(s, lo + 1, hi)

(***************************************************************************)
(* Variants of EncryptFile with one plausible slip each.  They are not     *)
(* the program: a property that depends on the code fails under one.       *)
(***************************************************************************)
\* the key-size check left to aes.NewCipher, which takes 16 and 24 bytes too
EncryptFile_NoKeySizeCheck(plaintext, key, rnd) ==
    IF ~aesNewCipherOk(key)
    THEN Res(<<>>, ErrCreateCipher, <<"aes.NewCipher">>)
    ELSE IF ~rnd.ok
    THEN Res(<<>>, ErrGenerateNonce,
             <<"aes.NewCipher", "cipher.NewGCM", "rand.Read">>)
    ELSE Res(BigEndianPutUint32(U32(1)) \o Bytes(rnd.bytes)
                 \o gcmSeal(key, Bytes(rnd.bytes), plaintext), "",
             <<"aes.NewCipher", "cipher.NewGCM", "rand.Read", "gcm.Seal">>)

\* the version written with binary.LittleEndian
EncryptFile_LittleEndian(plaintext, key, rnd) ==
    IF Len(key) # keySize THEN Res(<<>>, ErrInvalidKeySize, <<>>)
    ELSE IF ~rnd.ok
    THEN Res(<<>>, ErrGenerateNonce,
             <<"aes.NewCipher", "cipher.NewGCM", "rand.Read">>)
    ELSE Res(<<Lit(1), Lit(0), Lit(0), Lit(0)>> \o Bytes(rnd.bytes)
                 \o gcmSeal(key, Bytes(rnd.bytes), plaintext), "",
             <<"aes.NewCipher", "cipher.NewGCM", "rand.Read", "gcm.Seal">>)

\* the nonce left as make([]byte, nonceSize) made it: rand.Reader never read
EncryptFile_ZeroNonce(plaintext, key, rnd) ==
    IF Len(key) # keySize THEN Res(<<>>, ErrInvalidKeySize, <<>>)
    ELSE LET nonce == Bytes(Repeat(nonceSize, 0))
         IN  Res(BigEndianPutUint32(U32(1)) \o nonce
                     \o gcmSeal(key, nonce, plaintext), "",
                 <<"aes.NewCipher", "cipher.NewGCM", "gcm.Seal">>)

(***************************************************************************)
(* crypto.EncryptFile(plaintext, key).  rnd is what                        *)
(* io.ReadFull(rand.Reader, nonce) delivers if the call gets that far:     *)
(* [ok, bytes].                                                            *)
(***************************************************************************)
EncryptFile(plaintext, key, rnd) ==
    IF Len(key) # keySize THEN Res(<<>>, ErrInvalidKeySize, <<>>)
    ELSE IF ~aesNewCipherOk(key)
    THEN Res(<<>>, ErrCreateCipher, <<"aes.NewCipher">>)
    ELSE IF ~rnd.ok
    THEN Res(<<>>, ErrGenerateNonce,
             <<"aes.NewCipher", "cipher.NewGCM", "rand.Read">>)
    ELSE LET nonce == Bytes(rnd.bytes)
             ciphertext == gcmSeal(key, nonce, plaintext)
             output == BigEndianPutUint32(U32(1)) \o nonce \o ciphertext
         IN  Res(output, "",
                 <<"aes.NewCipher", "cipher.NewGCM", "rand.Read", "gcm.Seal">>)

(***************************************************************************)
(* Variants of DecryptFile with one plausible slip each.                   *)
(***************************************************************************)
\* what DecryptFile does once the key size, the length and the version have
\* been accepted, with the ciphertext taken from offset `from`, the error of
\* gcm.Open dropped or not
DecryptTail(encrypted, key, from, dropErr) ==
    IF Len(encrypted) < versionSize + nonceSize \/ Len(encrypted) < from
    THEN Res(<<>>, PanicSliceBounds, <<>>)
    ELSE LET nonce == Slice(encrypted, versionSize, versionSize + nonceSize)
             ciphertext == Slice(encrypted, from, Len(encrypted))
             opened == gcmOpen(key, nonce, ciphertext)
             lib == <<"aes.NewCipher", "cipher.NewGCM", "gcm.Open">>
         IN  IF ~opened.ok /\ ~dropErr THEN Res(<<>>, ErrDecrypt, lib)
             ELSE Res(opened.plaintext, "", lib)

\* the ciphertext sliced from 4+tagSize instead of 4+nonceSize
DecryptFile_TagOffset(encrypted, key) ==
    IF Len(key) # keySize THEN Res(<<>>, ErrInvalidKeySize, <<>>)
    ELSE IF Len(encrypted) < versionSize + nonceSize
    THEN Res(<<>>, ErrTooShort, <<>>)
    ELSE IF BigEndianUint32(Slice(encrypted, 0, versionSize)) # U32(1)
    THEN Res(<<>>, ErrUnsupportedVersion, <<>>)
    ELSE DecryptTail(encrypted, key, versionSize + tagSize, FALSE)

\* the error of gcm.Open not checked
DecryptFile_IgnoreOpenError(encrypted, key) ==
    IF Len(key) # keySize THEN Res(<<>>, ErrInvalidKeySize, <<>>)
    ELSE IF Len(encrypted) < versionSize + nonceSize
    THEN Res(<<>>, ErrTooShort, <<>>)
    ELSE IF BigEndianUint32(Slice(encrypted, 0, versionSize)) # U32(1)
    THEN Res(<<>>, ErrUnsupportedVersion, <<>>)
    ELSE DecryptTail(encrypted, key, versionSize + nonceSize, TRUE)

\* the version compared only after gcm.Open has run
DecryptFile_VersionLast(encrypted, key) ==
    IF Len(key) # keySize THEN Res(<<>>, ErrInvalidKeySize, <<>>)
    ELSE IF Len(encrypted) < versionSize + nonceSize
    THEN Res(<<>>, ErrTooShort, <<>>)
    ELSE LET r == DecryptTail(encrypted, key, versionSize + nonceSize, FALSE)
         IN  IF r.err # "" THEN r
             ELSE IF BigEndianUint32(Slice(encrypted, 0, versionSize)) # U32(1)
             THEN Res(<<>>, ErrUnsupportedVersion, r.lib)
             ELSE r

\* the length compared with 4, the version header, instead of 4+nonceSize
DecryptFile_HeaderOnlyLength(encrypted, key) ==
    IF Len(key) # keySize THEN Res(<<>>, ErrInvalidKeySize, <<>>)
    ELSE IF Len(encrypted) < versionSize
    THEN Res(<<>>, ErrTooShort, <<>>)
    ELSE IF BigEndianUint32(Slice(encrypted, 0, versionSize)) # U32(1)
    THEN Res(<<>>, ErrUnsupportedVersion, <<>>)
    ELSE DecryptTail(encrypted, key, versionSize + nonceSize, FALSE)

(***************************************************************************)
(* crypto.DecryptFile(encrypted, key)                                      *)
(***************************************************************************)
DecryptFile(encrypted, key) ==
    IF Len(key) # keySize THEN Res(<<>>, ErrInvalidKeySize, <<>>)
    ELSE IF Len(encrypted) < versionSize + nonceSize
    THEN Res(<<>>, ErrTooShort, <<>>)
    ELSE IF Len(encrypted) < versionSize
    THEN Res(<<>>, PanicSliceBounds, <<>>)
    ELSE IF BigEndianUint32(Slice(encrypted, 0, versionSize)) # U32(1)
    THEN Res(<<>>, ErrUnsupportedVersion, <<>>)
    ELSE IF Len(encrypted) < versionSize + nonceSize
    THEN Res(<<>>, PanicSliceBounds, <<>>)
    ELSE IF ~aesNewCipherOk(key)
    THEN Res(<<>>, ErrCreateCipher, <<"aes.NewCipher">>)
    ELSE LET nonce == Slice(encrypted, versionSize, versionSize + nonceSize)
             ciphertext == Slice(encrypted, versionSize + nonceSize, Len(encrypted))
             opened == gcmOpen(key, nonce, ciphertext)
             lib == <<"aes.NewCipher", "cipher.NewGCM", "gcm.Open">>
         IN  IF ~opened.ok THEN Res(<<>>, ErrDecrypt, lib)
             ELSE Res(opened.plaintext, "", lib)

\* the version read with binary.LittleEndian
IsEncryptedFile_LittleEndian(data) ==
    IF Len(data) < versionSize THEN FALSE
    ELSE [hi |-> data[4].v * 256 + data[3].v,
          lo |-> data[2].v * 256 + data[1].v] = U32(1)

(***************************************************************************)
(* crypto.IsEncryptedFile(data)                                            *)
(***************************************************************************)
IsEncryptedFile(data) ==
    IF Len(data) < versionSize THEN FALSE
    ELSE BigEndianUint32(Slice(data, 0, versionSize)) = U32(1)

(***************************************************************************)
(* The inputs the calls are made with.                                     *)
(***************************************************************************)
\* plaintexts: empty and binary
Plaintexts == { <<>>, Bytes(<<0, 1, 2, 255, 254, 253>>) }

\* unencrypted data that IsEncryptedFile is asked about: text, and text that
\* happens to begin 00 00 00 01
PlainData == { Bytes(<<112, 108, 97, 105, 110>>), Bytes(<<0, 0, 0, 1, 104>>) }

\* keys: two of 32 bytes that differ in the last byte alone, nil, and keys
\* of 16, 24 and 33 bytes
Keys ==
    { Repeat(32, 1), [Repeat(32, 1) EXCEPT ![32] = 2],
      <<>>, Repeat(16, 1), Repeat(24, 1), Repeat(33, 1) }

\* what a read of n bytes from rand.Reader may deliver
RandReads(n) ==
    { [ok |-> TRUE, bytes |-> Repeat(n, 7)],
      [ok |-> TRUE, bytes |-> [Repeat(n, 7) EXCEPT ![n] = 8]],
      [ok |-> FALSE, bytes |-> <<>>] }

\* the xor masks a byte is altered with: one bit, and all bits
Masks == {1, 255}

\* data with the byte at position i (1-based) altered
Alter(data, i, m) == [data EXCEPT ![i] = XorByte(data[i], m)]

\* the longest output there is: that of the longest plaintext
MaxOutputLen == versionSize + nonceSize + 6 + tagSize

\* the inputs made from the output of the latest EncryptFile call: the
\* output as it is (m = 0), or with the byte at position i altered by mask m
Derived(i, m) ==
    LET out == encLog[Len(encLog)].res.out
    IN  IF m = 0 THEN out ELSE Alter(out, i, m)

DerivedChoices ==
    IF encLog = <<>> THEN {}
    ELSE { t \in (1..MaxOutputLen) \X (Masks \cup {0}) :
             /\ t[1] <= Len(encLog[Len(encLog)].res.out)
             /\ t[2] = 0 => t[1] = 1 }

\* hand-made inputs: empty, 3 bytes, a bare header, 15 bytes, and 16 and
\* more bytes under several version numbers
Crafted ==
    { <<>>, Bytes(<<0, 0, 0>>), Bytes(<<0, 0, 0, 1>>),
      Bytes(<<0, 0, 0, 1>> \o Repeat(11, 0)),
      Bytes(<<0, 0, 0, 1>> \o Repeat(12, 0)),
      Bytes(<<0, 0, 0, 1>> \o Repeat(28, 0)),
      Bytes(<<0, 0, 0, 2>> \o Repeat(12, 0)),
      Bytes(<<0, 0, 0, 0>> \o Repeat(12, 0)),
      Bytes(<<1, 0, 0, 0>> \o Repeat(12, 0)),
      Bytes(<<0, 0, 1, 1>> \o Repeat(28, 0)),
      Bytes(<<0, 0, 0, 2>> \o Repeat(100, 0)) }

NoCall ==
    [op |-> "none", data |-> <<>>, key |-> <<>>, rnd |-> [ok |-> FALSE, bytes |-> <<>>],
     res |-> Res(<<>>, "", <<>>), b |-> FALSE]

\* no file .gitenv_keyring
NoFile == [kind |-> "missing"]

\* no keyring call is going on
NoKeyringCall ==
    [op |-> "none", login |-> "", keys |-> <<>>, update |-> <<>>,
     pair |-> [id |-> "", size |-> 0], order |-> <<>>,
     err |-> "", cause |-> "", named |-> "", res |-> Res(<<>>, "", <<>>),
     tried |-> <<>>, keyring |-> "nil", before |-> <<>>, rawKey |-> <<>>,
     diskBefore |-> NoFile, w |-> ""]

\* the logins of the model
Logins == {"alice", "bob"}

\* no entry for a login in Keyring.Collaborators
NoCollaborator == [present |-> FALSE, SSHKeys |-> <<>>, EncryptedDEK |-> <<>>]

\* make(Collaborators)
NoCollaborators == [l \in Logins |-> NoCollaborator]

\* a keyring with no collaborator, no file, no call
InitKeyringVars ==
    /\ collaborators = NoCollaborators
    /\ disk = NoFile
    /\ lastKr = NoKeyringCall
    /\ generation = [stage |-> "none", rawKey |-> <<>>,
                     collabs |-> NoCollaborators, calls |-> 0,
                     reloaded |-> FALSE]

\* the repository secret is not set; the empty text
NoSecret == [enc |-> "none", of |-> <<>>]

\* github.GetEncryptionKey was not called
NoGet == [key |-> <<>>, err |-> "", out |-> <<>>, cmds |-> <<>>]

\* no run of a command that uses the shared key is going on
NoFilterCall ==
    [op |-> "none", input |-> <<>>, derived |-> FALSE, env |-> <<>>,
     stdout |-> <<>>, err |-> "", cause |-> "", get |-> NoGet, key |-> <<>>,
     created |-> FALSE, secretBefore |-> NoSecret]

\* nothing was staged through clean
NoBlob == [input |-> <<>>, stdout |-> <<>>, key |-> <<>>, secret |-> NoSecret]

\* the processes that run side by side in one checkout: two that change
\* the table and a third
Procs == {"p1", "p2", "p3"}

\* no change of the table
NoMutation == [op |-> "none", login |-> "", keys |-> <<>>]

\* a process that has not started: where it is, the change it makes, its
\* keyring, the file it loaded, the file its Save replaced, whether another
\* process wrote the file since it opened it, and its error
NoProc ==
    [pc |-> "start", mutation |-> NoMutation, keyring |-> NoCollaborators,
     loaded |-> NoFile, replaced |-> NoFile, others |-> FALSE, err |-> ""]

\* no file .gitattributes
NoAttributes == [exists |-> FALSE, content |-> <<>>]

\* no add or remove command is going on
NoAttrCall ==
    [op |-> "none", args |-> <<>>, err |-> "", before |-> NoAttributes]

\* no secret, no filter run, no process, no .gitattributes
InitCommandVars ==
    /\ secret = NoSecret
    /\ lastFilter = NoFilterCall
    /\ index = [staged |-> 0, blob |-> NoBlob]
    /\ proc = [p \in Procs |-> NoProc]
    /\ gitattributes = NoAttributes
    /\ lastAttr = NoAttrCall

\* no DEK call is going on
NoDekCall ==
    [op |-> "none", blob |-> <<>>, pair |-> [id |-> "", size |-> 0],
     rnd |-> NoCall.rnd, rawKey |-> <<>>, res |-> Res(<<>>, "", <<>>)]

(***************************************************************************)
(* The calls.                                                              *)
(***************************************************************************)
CallEncryptFile ==
    /\ last.op = "none"
    /\ Len(encLog) < MaxCalls
    /\ \E plaintext \in Plaintexts, key \in Keys, rnd \in RandReads(nonceSize) :
          LET res == EncryptFile(plaintext, key, rnd)
              call == [op |-> "EncryptFile", data |-> plaintext, key |-> key,
                       rnd |-> rnd, res |-> res, b |-> FALSE]
          IN  /\ last' = call
              /\ encLog' = IF res.err = "" THEN Append(encLog, call) ELSE encLog
    /\ UNCHANGED <<dek, wrapLog, lastDek, keyringVars, commandVars>>

DoDecryptFile(encrypted, key) ==
    last' = [op |-> "DecryptFile", data |-> encrypted, key |-> key,
             rnd |-> NoCall.rnd, res |-> DecryptFile(encrypted, key),
             b |-> FALSE]

CallDecryptFile ==
    /\ last.op = "none"
    /\ \E key \in Keys :
          \/ \E t \in DerivedChoices : DoDecryptFile(Derived(t[1], t[2]), key)
          \/ \E encrypted \in Crafted : DoDecryptFile(encrypted, key)
    /\ UNCHANGED <<encLog, dek, wrapLog, lastDek, keyringVars, commandVars>>

DoIsEncryptedFile(data) ==
    last' = [op |-> "IsEncryptedFile", data |-> data, key |-> <<>>,
             rnd |-> NoCall.rnd, res |-> NoCall.res,
             b |-> IsEncryptedFile(data)]

CallIsEncryptedFile ==
    /\ last.op = "none"
    /\ \/ \E t \in DerivedChoices : DoIsEncryptedFile(Derived(t[1], t[2]))
       \/ \E data \in Crafted \cup Plaintexts \cup PlainData : DoIsEncryptedFile(data)
    /\ UNCHANGED <<encLog, dek, wrapLog, lastDek, keyringVars, commandVars>>

\* the caller takes the result and goes on
Return ==
    /\ last.op # "none"
    /\ last' = NoCall
    /\ UNCHANGED <<encLog, dek, wrapLog, lastDek, keyringVars, commandVars>>

InitCipher ==
    /\ encLog = <<>>
    /\ last = NoCall
    /\ dek = <<>>
    /\ wrapLog = <<>>
    /\ lastDek = NoDekCall
    /\ InitKeyringVars
    /\ InitCommandVars

NextCipher == CallEncryptFile \/ CallDecryptFile \/ CallIsEncryptedFile \/ Return

SpecCipher == InitCipher /\ [][NextCipher]_vars

(***************************************************************************)
(* RSA-OAEP of the standard library, by contract.  A key pair is named by  *)
(* id; size is the length of its modulus in bytes.  A ciphertext is kept   *)
(* as one symbolic block: <<c>>, and <<>> is the empty (nil) byte slice.   *)
(***************************************************************************)
ErrNoDEK == "no DEK found. Must be generated first with GenerateRawKey()"
ErrEncryptDEK == "failed to encrypt DEK"
ErrDecryptDEK == "failed to decrypt DEK"
ErrGenerateKey == "failed to generate key"

\* hash.Size()
HashSize(hash) == IF hash = "sha256" THEN 32 ELSE 20

\* rsa.EncryptOAEP(hash, rand.Reader, pub, msg, label); rnd is what the read
\* of the OAEP seed from rand.Reader delivers
rsaEncryptOAEP(hash, rnd, pub, msg, label) ==
    IF Len(msg) > pub.size - 2 * HashSize(hash) - 2
    THEN [ok |-> FALSE, out |-> <<>>]
    ELSE IF ~rnd.ok
    THEN [ok |-> FALSE, out |-> <<>>]
    ELSE [ok |-> TRUE,
          out |-> << [k |-> "oaep", pub |-> pub.id, size |-> pub.size,
                      hash |-> hash, label |-> label, seed |-> rnd.bytes,
                      msg |-> msg] >>]

\* rsa.DecryptOAEP(hash, rand.Reader, priv, ciphertext, label): the message
\* of a ciphertext made for the public key of priv with this hash and this
\* label; ErrDecryption for anything else
rsaDecryptOAEP(hash, priv, ciphertext, label) ==
    IF /\ Len(ciphertext) = 1
       /\ ciphertext[1].k = "oaep"
       /\ ciphertext[1].pub = priv.id
       /\ ciphertext[1].size = priv.size
       /\ ciphertext[1].hash = hash
       /\ ciphertext[1].label = label
    THEN [ok |-> TRUE, out |-> ciphertext[1].msg]
    ELSE [ok |-> FALSE, out |-> <<>>]

(***************************************************************************)
(* DEKManager.GenerateRawKey(): the new d.rawKey and the error.  rnd is    *)
(* what io.ReadFull(rand.Reader, key) delivers.                            *)
(***************************************************************************)
GenerateRawKey(rawKey, rnd) ==
    IF ~rnd.ok THEN [rawKey |-> rawKey, err |-> ErrGenerateKey]
    ELSE [rawKey |-> rnd.bytes, err |-> ""]

\* a variant: the DEK encrypted under SHA-1 OAEP
EncryptDEK_Sha1(rawKey, publicKey, rnd) ==
    IF rawKey = <<>> THEN Res(<<>>, ErrNoDEK, <<>>)
    ELSE LET r == rsaEncryptOAEP("sha1", rnd, publicKey, rawKey, <<>>)
         IN  IF ~r.ok THEN Res(<<>>, ErrEncryptDEK, <<"rsa.EncryptOAEP">>)
             ELSE Res(r.out, "", <<"rsa.EncryptOAEP">>)

(***************************************************************************)
(* DEKManager.EncryptDEK(publicKey), on a manager whose d.rawKey is rawKey *)
(***************************************************************************)
EncryptDEK(rawKey, publicKey, rnd) ==
    IF rawKey = <<>> THEN Res(<<>>, ErrNoDEK, <<>>)
    ELSE LET r == rsaEncryptOAEP("sha256", rnd, publicKey, rawKey, <<>>)
         IN  IF ~r.ok THEN Res(<<>>, ErrEncryptDEK, <<"rsa.EncryptOAEP">>)
             ELSE Res(r.out, "", <<"rsa.EncryptOAEP">>)

(***************************************************************************)
(* crypto.DecryptDEK(encryptedDEK, privateKey)                             *)
(***************************************************************************)
DecryptDEK(encryptedDEK, privateKey) ==
    LET r == rsaDecryptOAEP("sha256", privateKey, encryptedDEK, <<>>)
    IN  IF ~r.ok THEN Res(<<>>, ErrDecryptDEK, <<"rsa.DecryptOAEP">>)
        ELSE Res(r.out, "", <<"rsa.DecryptOAEP">>)

(***************************************************************************)
(* The DEK calls and their inputs.                                         *)
(***************************************************************************)
\* RSA key pairs: moduli of 256 and 128 bytes, of 98 bytes (the smallest
\* that holds 32 bytes under OAEP-SHA256), and of 97 and 64 bytes (too small)
KeyPairs ==
    { [id |-> "alice", size |-> 256], [id |-> "bob", size |-> 256],
      [id |-> "carol", size |-> 128], [id |-> "dave", size |-> 98],
      [id |-> "erin", size |-> 97], [id |-> "frank", size |-> 64] }

MaxWraps == 2

CallGenerateRawKey ==
    /\ lastDek.op = "none"
    /\ \E rnd \in RandReads(keySize) :
          LET g == GenerateRawKey(dek, rnd)
          IN  /\ dek' = g.rawKey
              /\ lastDek' = [NoDekCall EXCEPT !.op = "GenerateRawKey",
                                !.rnd = rnd, !.rawKey = dek,
                                !.res = Res(<<>>, g.err, <<"rand.Read">>)]
    /\ UNCHANGED <<encLog, last, wrapLog, keyringVars, commandVars>>

CallEncryptDEK ==
    /\ lastDek.op = "none"
    /\ Len(wrapLog) < MaxWraps
    /\ \E publicKey \in KeyPairs, rnd \in RandReads(HashSize("sha256")) :
          LET res == EncryptDEK(dek, publicKey, rnd)
              call == [NoDekCall EXCEPT !.op = "EncryptDEK", !.pair = publicKey,
                          !.rnd = rnd, !.rawKey = dek, !.res = res]
          IN  /\ lastDek' = call
              /\ wrapLog' = IF res.err = "" THEN Append(wrapLog, call) ELSE wrapLog
    /\ UNCHANGED <<encLog, last, dek, keyringVars, commandVars>>

\* the wrapped DEKs handed to DecryptDEK: those made so far, nil, and bytes
\* that no EncryptDEK made
WrappedInputs ==
    { wrapLog[n].res.out : n \in 1..Len(wrapLog) }
        \cup { <<>>, << [k |-> "lit", v |-> 0] >> }

CallDecryptDEK ==
    /\ lastDek.op = "none"
    /\ \E encryptedDEK \in WrappedInputs, privateKey \in KeyPairs :
          lastDek' = [NoDekCall EXCEPT !.op = "DecryptDEK", !.blob = encryptedDEK,
                         !.pair = privateKey,
                         !.res = DecryptDEK(encryptedDEK, privateKey)]
    /\ UNCHANGED <<encLog, last, dek, wrapLog, keyringVars, commandVars>>

ReturnDek ==
    /\ lastDek.op # "none"
    /\ lastDek' = NoDekCall
    /\ UNCHANGED <<encLog, last, dek, wrapLog, keyringVars, commandVars>>

InitDEK ==
    /\ encLog = <<>>
    /\ last = NoCall
    /\ dek = <<>>
    /\ wrapLog = <<>>
    /\ lastDek = NoDekCall
    /\ InitKeyringVars
    /\ InitCommandVars

NextDEK == CallGenerateRawKey \/ CallEncryptDEK \/ CallDecryptDEK \/ ReturnDek

SpecDEK == InitDEK /\ [][NextDEK]_vars


(***************************************************************************)
(* Properties of the file cipher (under SpecCipher).                       *)
(***************************************************************************)
Logged == 1..Len(encLog)
OutOf(n) == encLog[n].res.out
IsDecrypt == last.op = "DecryptFile"
IsEncrypt == last.op = "EncryptFile"

\* the positions at which two byte sequences of one length differ
DiffAt(a, b) == { i \in 1..Len(a) : a[i] # b[i] }

\* C1: decrypting the output of a successful EncryptFile(P, K) with the same
\* key K succeeds and returns exactly P (empty and binary P included).
C1_RoundTrip ==
    \A n \in Logged :
        (IsDecrypt /\ last.data = OutOf(n) /\ last.key = encLog[n].key)
            => (last.res.err = "" /\ last.res.out = encLog[n].data)

C1_Witness ==
    \E n \in Logged :
        /\ IsDecrypt /\ last.data = OutOf(n) /\ last.key = encLog[n].key
        /\ encLog[n].data = Bytes(<<0, 1, 2, 255, 254, 253>>)
        /\ last.res.out = encLog[n].data

\* C2: an EncryptFile output with one byte of its nonce, ciphertext or tag
\* altered (the final byte in particular) makes DecryptFile under the same
\* key fail with the authentication error and return no plaintext bytes.
C2_TamperDetected ==
    \A n \in Logged :
        ( /\ IsDecrypt /\ last.key = encLog[n].key
          /\ Len(last.data) = Len(OutOf(n))
          /\ Cardinality(DiffAt(last.data, OutOf(n))) = 1
          /\ \A i \in DiffAt(last.data, OutOf(n)) : i > 4 )
            => (last.res.err = ErrDecrypt /\ last.res.out = <<>>)

C2_Witness ==
    \E n \in Logged :
        /\ IsDecrypt /\ last.key = encLog[n].key
        /\ Len(last.data) = Len(OutOf(n))
        /\ DiffAt(last.data, OutOf(n)) = {Len(OutOf(n))}
        /\ last.res.err = ErrDecrypt

\* C3: decrypting an EncryptFile output with a different 32-byte key returns
\* the authentication error and no plaintext.
C3_WrongKeyRejected ==
    \A n \in Logged :
        ( /\ IsDecrypt /\ last.data = OutOf(n)
          /\ Len(last.key) = 32 /\ last.key # encLog[n].key )
            => (last.res.err = ErrDecrypt /\ last.res.out = <<>>)

C3_Witness ==
    \E n \in Logged :
        /\ IsDecrypt /\ last.data = OutOf(n)
        /\ Len(last.key) = 32 /\ last.key # encLog[n].key
        /\ last.res.err = ErrDecrypt

\* the first four bytes are not big-endian 1
VersionNot1(data) ==
    <<data[1], data[2], data[3], data[4]>> # <<Lit(0), Lit(0), Lit(0), Lit(1)>>

\* C4 as stated: a payload of at least 16 bytes whose version is not 1 fails
\* with the unsupported-version error for every key supplied.
C4_VersionGatingAnyKey ==
    (IsDecrypt /\ Len(last.data) >= 16 /\ VersionNot1(last.data))
        => last.res.err = ErrUnsupportedVersion

\* C4 as amended: a payload of at least 16 bytes whose version is not 1 fails
\* with the unsupported-version error for every key of 32 bytes, the right
\* one or not, before the nonce or the ciphertext is used (no cipher is set
\* up); a key of another length is rejected first, as an invalid key size.
C4_VersionGating ==
    (IsDecrypt /\ Len(last.data) >= 16 /\ VersionNot1(last.data))
        => /\ Len(last.key) = 32
              => (last.res.err = ErrUnsupportedVersion /\ last.res.lib = <<>>)
           /\ Len(last.key) # 32 => last.res.err = ErrInvalidKeySize

C4_Witness ==
    \E n \in Logged :
        /\ IsDecrypt /\ Len(last.data) = Len(OutOf(n))
        /\ DiffAt(last.data, OutOf(n)) = {4}
        /\ Len(last.key) = 32 /\ last.key # encLog[n].key
        /\ last.res.err = ErrUnsupportedVersion

\* C5: EncryptFile and DecryptFile return the invalid-key-size error for
\* every key that is not exactly 32 bytes long (nil, 16 and 24 bytes
\* included), whatever the data, and call no cipher at all.
C5_KeySizeRejected ==
    ((IsEncrypt \/ IsDecrypt) /\ Len(last.key) # 32)
        => /\ last.res.err = ErrInvalidKeySize
           /\ last.res.out = <<>>
           /\ last.res.lib = <<>>

C5_Witness ==
    /\ IsEncrypt /\ Len(last.key) = 16
    /\ last.res.err = ErrInvalidKeySize

\* C6: DecryptFile with a 32-byte key and fewer than 16 bytes of input fails
\* with the too-short error; no slice expression runs past the input.
C6_TruncatedRejected ==
    (IsDecrypt /\ Len(last.key) = 32 /\ Len(last.data) < 16)
        => (last.res.err = ErrTooShort /\ last.res.out = <<>>)

C6_Witness ==
    /\ IsDecrypt /\ Len(last.key) = 32
    /\ last.data = Bytes(<<0, 0, 0, 1>>)
    /\ last.res.err = ErrTooShort

\* C7: a successful EncryptFile output is the bytes 00 00 00 01, then the 12
\* bytes of the nonce, then the sealed ciphertext and tag; it is
\* 4 + 12 + len(P) + 16 bytes long.
C7_WireLayout ==
    (IsEncrypt /\ last.res.err = "")
        => /\ Len(last.res.out) = 4 + 12 + Len(last.data) + 16
           /\ SubSeq(last.res.out, 1, 4) = <<Lit(0), Lit(0), Lit(0), Lit(1)>>
           /\ SubSeq(last.res.out, 5, 16) = Bytes(last.rnd.bytes)
           /\ \A i \in 17..Len(last.res.out) :
                 /\ last.res.out[i].k = "gcm"
                 /\ last.res.out[i].i = i - 16
                 /\ last.res.out[i].s = <<last.key, Bytes(last.rnd.bytes), last.data>>

C7_Witness ==
    /\ IsEncrypt /\ last.res.err = ""
    /\ Len(last.data) = 6
    /\ Len(last.res.out) = 38

\* the nonce field of an output
NonceOf(out) == SubSeq(out, 5, 16)

C9_IsEncryptedFileExact ==
    /\ last.op = "IsEncryptedFile"
          => (last.b <=> /\ Len(last.data) >= 4
                         /\ last.data[1] = Lit(0) /\ last.data[2] = Lit(0)
                         /\ last.data[3] = Lit(0) /\ last.data[4] = Lit(1))
    /\ \A n \in Logged :
          (last.op = "IsEncryptedFile" /\ last.data = OutOf(n)) => last.b

C9_Witness ==
    \E n \in Logged :
        /\ last.op = "IsEncryptedFile" /\ last.data = OutOf(n) /\ last.b

(***************************************************************************)
(* Properties of the DEK wrapping (under SpecDEK).                         *)
(***************************************************************************)
\* C10: a DEK wrapped by EncryptDEK on a manager holding the generated
\* 32-byte raw key R, for the public key of a pair, is unwrapped by
\* DecryptDEK with the private key of that pair to exactly R.
C10_WrapUnwrapRoundTrip ==
    \A n \in 1..Len(wrapLog) :
        ( /\ lastDek.op = "DecryptDEK"
          /\ lastDek.blob = wrapLog[n].res.out
          /\ lastDek.pair = wrapLog[n].pair )
            => /\ lastDek.res.err = ""
               /\ lastDek.res.out = wrapLog[n].rawKey
               /\ Len(lastDek.res.out) = 32

C10_Witness ==
    \E n \in 1..Len(wrapLog) :
        /\ lastDek.op = "DecryptDEK"
        /\ lastDek.blob = wrapLog[n].res.out
        /\ lastDek.pair = wrapLog[n].pair
        /\ lastDek.pair.size = 98
        /\ lastDek.res.out = wrapLog[n].rawKey
        /\ Len(lastDek.res.out) = 32

(***************************************************************************)
(* The keyring (crypto/keyring.go).  Keyring.Collaborators is a total      *)
(* function on Logins whose absent entries are NoCollaborator; k.DEK.rawKey *)
(* is the variable dek.  A public key string is kept as what it parses to: *)
(* its algorithm and, for RSA, the key pair and the size of the modulus.   *)
(***************************************************************************)
ErrParseSSHPublicKey == "failed to parse SSH public key"
ErrNotRSA == "public key is not an RSA key"
ErrNoValidKeys == "no valid SSH keys found for collaborator"
ErrNoCollaborator == "no collaborator found for login"
ErrDecryptWithKey == "failed to decrypt DEK with provided private key"
ErrWriteKeyring == "failed to write keyring"
ErrReadKeyring == "failed to read keyring"
ErrParseKeyring == "failed to parse keyring"
ErrSaveAfterUpdate == "failed to save keyring after updating collaborators"

\* the text of an RSA public key in authorized_keys form
RsaKey(id, size) == [alg |-> "ssh-rsa", id |-> id, size |-> size]

\* the text of an Ed25519 public key
EdKey == [alg |-> "ssh-ed25519", id |-> "bob", size |-> 32]

\* text that is no public key
BadKey == [alg |-> "", id |-> "not a key", size |-> 0]

\* ssh.ParseSSHPublicKey(keyBytes)
ParseSSHPublicKey(keyStr) ==
    IF keyStr.alg \notin {"ssh-rsa", "ssh-ed25519"}
    THEN [err |-> ErrParseSSHPublicKey, key |-> [id |-> "", size |-> 0]]
    ELSE IF keyStr.alg # "ssh-rsa"
    THEN [err |-> ErrNotRSA, key |-> [id |-> "", size |-> 0]]
    ELSE [err |-> "", key |-> [id |-> keyStr.id, size |-> keyStr.size]]

\* what the n-th read of rand.Reader within one call delivers, for the
\* source rnds: all reads deliver the seed, those in rnds.fail fail
RandAt(rnds, n) ==
    IF n \in rnds.fail THEN [ok |-> FALSE, bytes |-> <<>>]
    ELSE [ok |-> TRUE, bytes |-> Repeat(HashSize("sha256"), rnds.seed)]

\* one attempt of the inner loop, as recorded for the caller: which key of
\* which login was tried and how it ended
Attempt(i, keyStr, outcome) == [i |-> i, key |-> keyStr, outcome |-> outcome]

\* a variant: the loop without its break, which goes on to the later keys
\* and keeps the last wrap that succeeds
RECURSIVE WrapFirst_NoBreak(_, _, _, _, _)
WrapFirst_NoBreak(keys, i, rawKey, rnds, n) ==
    IF i > Len(keys)
    THEN [found |-> FALSE, out |-> <<>>, tried |-> <<>>, n |-> n]
    ELSE LET p == ParseSSHPublicKey(keys[i])
         IN  IF p.err # ""
             THEN LET r == WrapFirst_NoBreak(keys, i + 1, rawKey, rnds, n)
                  IN  [r EXCEPT !.tried = <<Attempt(i, keys[i], "parse")>> \o @]
             ELSE LET e == EncryptDEK(rawKey, p.key, RandAt(rnds, n))
                      r == WrapFirst_NoBreak(keys, i + 1, rawKey, rnds, n + 1)
                  IN  IF e.err # ""
                      THEN [r EXCEPT !.tried =
                               <<Attempt(i, keys[i], "wrap")>> \o @]
                      ELSE [found |-> TRUE,
                            out |-> IF r.found THEN r.out ELSE e.out,
                            tried |-> <<Attempt(i, keys[i], "ok")>> \o r.tried,
                            n |-> r.n]

(***************************************************************************)
(* The inner loop of GenerateEncryptedDEKs (lines 102-119) from key i on:  *)
(* found and out are the first successful wrap, tried the attempts made,   *)
(* n the number of the next read of rand.Reader.                           *)
(***************************************************************************)
RECURSIVE WrapFirst(_, _, _, _, _)
WrapFirst(keys, i, rawKey, rnds, n) ==
    IF i > Len(keys)
    THEN [found |-> FALSE, out |-> <<>>, tried |-> <<>>, n |-> n]
    ELSE LET p == ParseSSHPublicKey(keys[i])
         IN  IF p.err # ""
             THEN LET r == WrapFirst(keys, i + 1, rawKey, rnds, n)
                  IN  [r EXCEPT !.tried = <<Attempt(i, keys[i], "parse")>> \o @]
             ELSE LET e == EncryptDEK(rawKey, p.key, RandAt(rnds, n))
                  IN  IF e.err # ""
                      THEN LET r == WrapFirst(keys, i + 1, rawKey, rnds, n + 1)
                           IN  [r EXCEPT !.tried =
                                   <<Attempt(i, keys[i], "wrap")>> \o @]
                      ELSE [found |-> TRUE, out |-> e.out,
                            tried |-> <<Attempt(i, keys[i], "ok")>>,
                            n |-> n + 1]

(***************************************************************************)
(* Keyring.GenerateEncryptedDEKs() from the j-th login of order on; order  *)
(* is the order in which range k.Collaborators yields the logins.  The     *)
(* result is the table as the call leaves it, the error, the login the     *)
(* error names and, per login, the attempts made.                          *)
(***************************************************************************)
RECURSIVE GenerateLoop(_, _, _, _, _, _, _)
GenerateLoop(collabs, rawKey, order, j, rnds, n, tried) ==
    IF j > Len(order)
    THEN [collabs |-> collabs, err |-> "", login |-> "", tried |-> tried]
    ELSE LET login == order[j]
             w == WrapFirst(collabs[login].SSHKeys, 1, rawKey, rnds, n)
             c2 == IF w.found
                   THEN [collabs EXCEPT ![login].EncryptedDEK = w.out]
                   ELSE collabs
             t2 == [tried EXCEPT ![login] = w.tried]
         IN  IF Len(c2[login].EncryptedDEK) = 0
             THEN [collabs |-> c2, err |-> ErrNoValidKeys, login |-> login,
                   tried |-> t2]
             ELSE GenerateLoop(c2, rawKey, order, j + 1, rnds, w.n, t2)

NoAttempts == [l \in Logins |-> <<>>]

GenerateEncryptedDEKs(collabs, rawKey, order, rnds) ==
    GenerateLoop(collabs, rawKey, order, 1, rnds, 1, NoAttempts)

(***************************************************************************)
(* Keyring.GetDecryptedDEK(privateKey, login)                              *)
(***************************************************************************)
GetDecryptedDEK(collabs, privateKey, login) ==
    IF login \notin Logins \/ ~collabs[login].present
    THEN Res(<<>>, ErrNoCollaborator, <<>>)
    ELSE LET r == DecryptDEK(collabs[login].EncryptedDEK, privateKey)
         IN  IF r.err # "" THEN Res(<<>>, ErrDecryptWithKey, r.lib)
             ELSE Res(r.out, "", r.lib)

(***************************************************************************)
(* encoding/json as Save and LoadKeyring use it.  A string is written as a *)
(* JSON string, a []byte as base64 text (null when nil), the map as an     *)
(* object with one member per login, and k.DEK, a struct with no exported  *)
(* field, as the empty object.                                             *)
(***************************************************************************)
JsonString(str) == [json |-> "string", v |-> str]

JsonBytes(b) ==
    IF b = <<>> THEN [json |-> "null", v |-> <<>>]
    ELSE [json |-> "base64", v |-> b]

\* a variant: the wrapped DEK left out of the file
JsonCollaborator_OmitDEK(c) ==
    [ssh_keys |-> [i \in 1..Len(c.SSHKeys) |-> JsonString(c.SSHKeys[i])],
     encrypted_dek |-> JsonBytes(<<>>)]

JsonCollaborator(c) ==
    [ssh_keys |-> [i \in 1..Len(c.SSHKeys) |-> JsonString(c.SSHKeys[i])],
     encrypted_dek |-> JsonBytes(c.EncryptedDEK)]

\* a variant: the raw key as an exported field, written as a member
JsonDEKManager_Exported(rawKey) == [members |-> {"RawKey"}, rawKey |-> rawKey]

\* a DEKManager as JSON: rawKey is not exported, so no member is written
JsonDEKManager(rawKey) == [members |-> {}, rawKey |-> <<>>]

\* json.MarshalIndent(k, "", "  ")
jsonMarshal(collabs, rawKey) ==
    [collaborators |->
        [l \in { x \in Logins : collabs[x].present } |->
            JsonCollaborator(collabs[l])],
     DEK |-> JsonDEKManager(rawKey)]

FromJsonBytes(j) == IF j.json = "base64" THEN j.v ELSE <<>>

\* json.Unmarshal(data, &keyring): the Collaborators of the keyring
jsonUnmarshal(data) ==
    [l \in Logins |->
        IF l \in DOMAIN data.collaborators
        THEN LET c == data.collaborators[l]
             IN  [present |-> TRUE,
                  SSHKeys |-> [i \in 1..Len(c.ssh_keys) |-> c.ssh_keys[i].v],
                  EncryptedDEK |-> FromJsonBytes(c.encrypted_dek)]
        ELSE NoCollaborator]

\* a file that holds data
FileOf(data) == [kind |-> "json", data |-> data]

\* a file whose content is no JSON document (cut short, or other text)
BadFile == [kind |-> "malformed"]

\* what os.WriteFile may do: write the file, fail and leave it alone, or
\* fail after it has truncated the file
WriteOutcomes == {"ok", "fail", "partial"}

(***************************************************************************)
(* Keyring.Save(): the file afterwards and the error.                      *)
(***************************************************************************)
Save(collabs, rawKey, file, w) ==
    LET data == jsonMarshal(collabs, rawKey)
    IN  IF w = "ok" THEN [disk |-> FileOf(data), err |-> ""]
        ELSE IF w = "fail" THEN [disk |-> file, err |-> ErrWriteKeyring]
        ELSE [disk |-> BadFile, err |-> ErrWriteKeyring]

\* a variant: one error for every failure, with no cause wrapped
LoadKeyring_OneError(file) ==
    IF file.kind # "json"
    THEN [keyring |-> "nil", err |-> ErrReadKeyring, cause |-> ""]
    ELSE [keyring |-> jsonUnmarshal(file.data), err |-> "", cause |-> ""]

(***************************************************************************)
(* crypto.LoadKeyring(): the keyring ("nil" for a nil pointer), the error  *)
(* and the error it wraps.                                                 *)
(***************************************************************************)
LoadKeyring(file) ==
    IF file.kind = "missing"
    THEN [keyring |-> "nil", err |-> ErrReadKeyring, cause |-> "os.ErrNotExist"]
    ELSE IF file.kind # "json"
    THEN [keyring |-> "nil", err |-> ErrParseKeyring, cause |-> "json.SyntaxError"]
    ELSE [keyring |-> jsonUnmarshal(file.data), err |-> "", cause |-> ""]

(***************************************************************************)
(* Keyring.AddCollaborator(login, sshKeys), RemoveCollaborator(login) and  *)
(* UpdateCollaborators(collaborators): the table and the file afterwards.  *)
(***************************************************************************)
AddCollaborator(collabs, rawKey, file, login, sshKeys, w) ==
    LET c2 == [collabs EXCEPT ![login] =
                  [present |-> TRUE, SSHKeys |-> sshKeys, EncryptedDEK |-> <<>>]]
    IN  [collabs |-> c2, disk |-> Save(c2, rawKey, file, w).disk, err |-> ""]

\* a variant: the record deleted in memory and the file left as it was
RemoveCollaborator_NoSave(collabs, rawKey, file, login, w) ==
    LET c2 == IF login \in Logins
              THEN [collabs EXCEPT ![login] = NoCollaborator]
              ELSE collabs
    IN  [collabs |-> c2, disk |-> file, err |-> ""]

RemoveCollaborator(collabs, rawKey, file, login, w) ==
    LET c2 == IF login \in Logins
              THEN [collabs EXCEPT ![login] = NoCollaborator]
              ELSE collabs
    IN  [collabs |-> c2, disk |-> Save(c2, rawKey, file, w).disk, err |-> ""]

UpdateCollaborators(collabs, rawKey, file, update, w) ==
    LET c2 == [l \in Logins |->
                  IF update[l].present THEN update[l] ELSE collabs[l]]
        sv == Save(c2, rawKey, file, w)
    IN  [collabs |-> c2, disk |-> sv.disk,
         err |-> IF sv.err # "" THEN ErrSaveAfterUpdate ELSE ""]

(***************************************************************************)
(* The keyring calls and their inputs.                                     *)
(***************************************************************************)
MaxKeyringCalls == 5

\* the candidate key lists a login is given
KeyListsOf(login) ==
    IF login = "alice"
    THEN { <<RsaKey("alice", 256)>>,
           <<RsaKey("alice", 256), RsaKey("alice2", 256)>>,
           <<BadKey>> }
    ELSE { <<BadKey, EdKey, RsaKey("bob", 256)>>,
           <<RsaKey("small", 64), RsaKey("bob", 256)>>,
           <<EdKey>> }

\* the private keys GetDecryptedDEK is called with
PrivateKeys ==
    { [id |-> "alice", size |-> 256], [id |-> "alice2", size |-> 256],
      [id |-> "bob", size |-> 256] }

\* the sources of randomness of one GenerateEncryptedDEKs call: every read
\* of an OAEP seed succeeds (a wrap fails for its key or for want of a raw
\* key, never for want of random bytes)
RandStreams == { [seed |-> 7, fail |-> {}], [seed |-> 9, fail |-> {}] }

\* a keyring file as an earlier run of the program left it in the
\* repository: alice with a DEK wrapped under a raw key of that run
RepoFile ==
    FileOf(jsonMarshal(
        [NoCollaborators EXCEPT !["alice"] =
            [present |-> TRUE, SSHKeys |-> <<RsaKey("alice", 256)>>,
             EncryptedDEK |->
                EncryptDEK(Repeat(keySize, 5), [id |-> "alice", size |-> 256],
                           [ok |-> TRUE, bytes |-> Repeat(keySize, 5)]).out]],
        <<>>))

\* the orders in which range k.Collaborators may yield the logins
Orders(collabs) ==
    LET S == { l \in Logins : collabs[l].present }
    IN  { o \in [1..Cardinality(S) -> S] :
            \A i, j \in 1..Cardinality(S) : o[i] = o[j] => i = j }

\* the arguments of UpdateCollaborators: for one or more logins a record
\* with a key list and either no wrapped DEK (a collaborator just fetched)
\* or the wrapped DEK the login has now (a copy of its record, changed)
UpdateRecords(login) ==
    { NoCollaborator } \cup
    { [present |-> TRUE, SSHKeys |-> ks, EncryptedDEK |-> e] :
        ks \in KeyListsOf(login),
        e \in {<<>>, collaborators[login].EncryptedDEK} }

Updates ==
    { u \in [Logins -> UNION { UpdateRecords(l) : l \in Logins }] :
        /\ \A l \in Logins : u[l] \in UpdateRecords(l)
        /\ \E l \in Logins : u[l].present }

KeyringIdle ==
    /\ lastKr.op = "none"
    /\ generation.calls < MaxKeyringCalls

\* the history after one more call: Counted when the call leaves the stage
\* alone, Restarted when it changes the table or the file
Counted == [generation EXCEPT !.calls = @ + 1]

Restarted ==
    [Counted EXCEPT !.stage = "none", !.rawKey = <<>>,
                    !.collabs = NoCollaborators]

KeyringGenerateRawKey ==
    /\ KeyringIdle
    /\ \E rnd \in RandReads(keySize) :
          LET g == GenerateRawKey(dek, rnd)
          IN  /\ dek' = g.rawKey
              /\ lastKr' = [NoKeyringCall EXCEPT !.op = "GenerateRawKey",
                               !.err = g.err, !.before = collaborators,
                               !.rawKey = dek, !.diskBefore = disk]
    /\ generation' = Counted
    /\ UNCHANGED <<commandVars, encLog, last, wrapLog, lastDek, collaborators, disk>>

KeyringAddCollaborator ==
    /\ KeyringIdle
    /\ \E login \in Logins, w \in WriteOutcomes :
          \E sshKeys \in KeyListsOf(login) :
              LET r == AddCollaborator(collaborators, dek, disk, login, sshKeys, w)
              IN  /\ collaborators' = r.collabs
                  /\ disk' = r.disk
                  /\ lastKr' = [NoKeyringCall EXCEPT !.op = "AddCollaborator",
                                   !.login = login, !.keys = sshKeys, !.w = w,
                                   !.before = collaborators, !.rawKey = dek,
                                   !.diskBefore = disk]
    /\ generation' = Restarted
    /\ UNCHANGED <<commandVars, encLog, last, dek, wrapLog, lastDek>>

KeyringUpdateCollaborators ==
    /\ KeyringIdle
    /\ \E update \in Updates, w \in WriteOutcomes :
          LET r == UpdateCollaborators(collaborators, dek, disk, update, w)
          IN  /\ collaborators' = r.collabs
              /\ disk' = r.disk
              /\ lastKr' = [NoKeyringCall EXCEPT !.op = "UpdateCollaborators",
                               !.update = update, !.err = r.err, !.w = w,
                               !.before = collaborators, !.rawKey = dek,
                               !.diskBefore = disk]
    /\ generation' = Restarted
    /\ UNCHANGED <<commandVars, encLog, last, dek, wrapLog, lastDek>>

KeyringRemoveCollaborator ==
    /\ KeyringIdle
    /\ \E login \in Logins \cup {"zed"}, w \in WriteOutcomes :
          LET r == RemoveCollaborator(collaborators, dek, disk, login, w)
          IN  /\ collaborators' = r.collabs
              /\ disk' = r.disk
              /\ lastKr' = [NoKeyringCall EXCEPT !.op = "RemoveCollaborator",
                               !.login = login, !.w = w,
                               !.before = collaborators,
                               !.rawKey = dek, !.diskBefore = disk]
    /\ generation' = Restarted
    /\ UNCHANGED <<commandVars, encLog, last, dek, wrapLog, lastDek>>

KeyringGenerateEncryptedDEKs ==
    /\ KeyringIdle
    /\ \E order \in Orders(collaborators), rnds \in RandStreams :
          LET r == GenerateEncryptedDEKs(collaborators, dek, order, rnds)
          IN  /\ collaborators' = r.collabs
              /\ lastKr' = [NoKeyringCall EXCEPT
                               !.op = "GenerateEncryptedDEKs", !.order = order,
                               !.err = r.err, !.named = r.login,
                               !.tried = r.tried, !.before = collaborators,
                               !.rawKey = dek, !.diskBefore = disk]
              /\ generation' =
                    IF r.err = ""
                    THEN [Counted EXCEPT !.stage = "generated",
                             !.rawKey = dek, !.collabs = r.collabs]
                    ELSE Restarted
    /\ UNCHANGED <<commandVars, encLog, last, dek, wrapLog, lastDek, disk>>

KeyringGetDecryptedDEK ==
    /\ lastKr.op = "none"
    /\ \E login \in Logins \cup {"zed"}, privateKey \in PrivateKeys :
          lastKr' = [NoKeyringCall EXCEPT !.op = "GetDecryptedDEK",
                        !.login = login, !.pair = privateKey,
                        !.res = GetDecryptedDEK(collaborators, privateKey, login),
                        !.before = collaborators, !.rawKey = dek,
                        !.diskBefore = disk]
    /\ UNCHANGED <<commandVars, encLog, last, dek, wrapLog, lastDek, collaborators, disk,
                   generation>>

KeyringSave ==
    /\ KeyringIdle
    /\ \E w \in WriteOutcomes :
          LET r == Save(collaborators, dek, disk, w)
          IN  /\ disk' = r.disk
              /\ lastKr' = [NoKeyringCall EXCEPT !.op = "Save", !.err = r.err,
                               !.w = w, !.before = collaborators,
                               !.rawKey = dek, !.diskBefore = disk]
              /\ generation' =
                    IF w = "partial" THEN Restarted
                    ELSE IF w = "ok" /\ generation.stage = "generated"
                    THEN [Counted EXCEPT !.stage = "saved"]
                    ELSE Counted
    /\ UNCHANGED <<commandVars, encLog, last, dek, wrapLog, lastDek, collaborators>>

\* keyring, err := LoadKeyring(): on success the program goes on with the
\* keyring loaded, whose DEK manager holds no raw key
KeyringLoad ==
    /\ KeyringIdle
    /\ LET r == LoadKeyring(disk)
       IN  /\ lastKr' = [NoKeyringCall EXCEPT !.op = "LoadKeyring",
                            !.err = r.err, !.cause = r.cause,
                            !.keyring = r.keyring, !.before = collaborators,
                            !.rawKey = dek, !.diskBefore = disk]
           /\ collaborators' = IF r.err = "" THEN r.keyring ELSE collaborators
           /\ dek' = IF r.err = "" THEN <<>> ELSE dek
           /\ generation' =
                 IF r.err # "" THEN Counted
                 ELSE IF generation.stage \in {"saved", "loaded"}
                 THEN [Counted EXCEPT !.stage = "loaded", !.reloaded = TRUE]
                 ELSE [Restarted EXCEPT !.reloaded = TRUE]
    /\ UNCHANGED <<commandVars, encLog, last, wrapLog, lastDek, disk>>

\* the file is removed or replaced from outside the program (a checkout)
FileChanged ==
    /\ KeyringIdle
    /\ \E f \in {NoFile, BadFile, RepoFile} : f # disk /\ disk' = f
    /\ generation' =
          IF generation.stage \in {"saved", "loaded"} THEN Restarted
          ELSE Counted
    /\ UNCHANGED <<commandVars, encLog, last, dek, wrapLog, lastDek, collaborators, lastKr>>

\* the caller takes the result and goes on
KeyringReturn ==
    /\ lastKr.op # "none"
    /\ lastKr' = NoKeyringCall
    /\ UNCHANGED <<commandVars, encLog, last, dek, wrapLog, lastDek, collaborators, disk,
                   generation>>

InitKeyring ==
    /\ encLog = <<>>
    /\ last = NoCall
    /\ dek = <<>>
    /\ wrapLog = <<>>
    /\ lastDek = NoDekCall
    /\ InitKeyringVars
    /\ InitCommandVars

NextKeyring ==
    \/ KeyringGenerateRawKey
    \/ KeyringAddCollaborator
    \/ KeyringUpdateCollaborators
    \/ KeyringRemoveCollaborator
    \/ KeyringGenerateEncryptedDEKs
    \/ KeyringGetDecryptedDEK
    \/ KeyringSave
    \/ KeyringLoad
    \/ FileChanged
    \/ KeyringReturn

SpecKeyring == InitKeyring /\ [][NextKeyring]_vars

(***************************************************************************)
(* Properties of the keyring (under SpecKeyring).                          *)
(***************************************************************************)
\* a key string that parses to an RSA key whose modulus holds the raw key
\* under OAEP with SHA-256
ValidKey(keyStr) ==
    /\ ParseSSHPublicKey(keyStr).err = ""
    /\ keySize <= keyStr.size - 2 * HashSize("sha256") - 2

\* the private key that belongs to a public key string
PairOf(keyStr) == [id |-> keyStr.id, size |-> keyStr.size]

Present(collabs) == { l \in Logins : collabs[l].present }

KeyIndexes(collabs, l) == 1..Len(collabs[l].SSHKeys)

HasValidKey(collabs, l) ==
    \E i \in KeyIndexes(collabs, l) : ValidKey(collabs[l].SSHKeys[i])

IsGenerate == lastKr.op = "GenerateEncryptedDEKs"

\* C11: after GenerateEncryptedDEKs succeeds over collaborators that each
\* have at least one valid public key, GetDecryptedDEK with the private key
\* of each collaborator returns one and the same raw key, the one that the
\* DEK manager of the keyring holds.
C11_MultiRecipientConsistency ==
    ( /\ IsGenerate
      /\ lastKr.err = ""
      /\ \A l \in Present(collaborators) : HasValidKey(collaborators, l) )
        => \A l \in Present(collaborators) :
              \E i \in KeyIndexes(collaborators, l) :
                 LET r == GetDecryptedDEK(collaborators,
                              PairOf(collaborators[l].SSHKeys[i]), l)
                 IN  /\ ValidKey(collaborators[l].SSHKeys[i])
                     /\ r.err = ""
                     /\ r.out = dek

\* C12: whenever every candidate public key of some collaborator fails to
\* parse or to wrap, GenerateEncryptedDEKs returns the error that names such
\* a collaborator, whatever the keyring held before the call (a wrapped DEK
\* of an earlier run included), and the call writes nothing to the file.
C12_AllKeysFailPropagation ==
    ( /\ IsGenerate
      /\ \E l \in Present(lastKr.before) : ~HasValidKey(lastKr.before, l) )
        => /\ lastKr.err = ErrNoValidKeys
           /\ lastKr.named \in Present(lastKr.before)
           /\ \A n \in 1..Len(lastKr.tried[lastKr.named]) :
                 lastKr.tried[lastKr.named][n].outcome # "ok"
           /\ disk = lastKr.diskBefore

\* C13: once a GenerateEncryptedDEKs that follows any sequence of
\* GenerateRawKey, AddCollaborator, UpdateCollaborators, RemoveCollaborator
\* and GenerateEncryptedDEKs has returned success, every non-empty
\* EncryptedDEK unwraps to the current raw DEK with the private key of one
\* of that collaborator's current candidate keys.
C13_GenerationInvariant ==
    ( /\ IsGenerate
      /\ lastKr.err = ""
      /\ ~generation.reloaded )
        => \A l \in Present(collaborators) :
              collaborators[l].EncryptedDEK # <<>>
                => \E i \in KeyIndexes(collaborators, l) :
                      LET keyStr == collaborators[l].SSHKeys[i]
                          r == DecryptDEK(collaborators[l].EncryptedDEK,
                                          PairOf(keyStr))
                      IN  /\ ParseSSHPublicKey(keyStr).err = ""
                          /\ r.err = ""
                          /\ r.out = dek

\* the logins that the loop of the latest GenerateEncryptedDEKs reached: all
\* of them, or those up to the one its error names
Processed ==
    IF lastKr.err = "" THEN Present(lastKr.before)
    ELSE { lastKr.order[j] : j \in { k \in 1..Len(lastKr.order) :
              \A m \in 1..(k - 1) : lastKr.order[m] # lastKr.named } }

\* the first key of a list that is valid (0: none)
FirstValid(keys) ==
    IF \E i \in 1..Len(keys) : ValidKey(keys[i])
    THEN CHOOSE i \in 1..Len(keys) :
            /\ ValidKey(keys[i])
            /\ \A j \in 1..(i - 1) : ~ValidKey(keys[j])
    ELSE 0

\* the wrapped DEK e is the raw key rawKey wrapped for the key keyStr
WrapsUnder(e, keyStr, rawKey) ==
    LET r == DecryptDEK(e, PairOf(keyStr))
    IN  r.err = "" /\ r.out = rawKey

\* C14: for each collaborator GenerateEncryptedDEKs tries the candidate keys
\* in list order, skips the keys that fail to parse (non-RSA keys included)
\* or to wrap, stores the wrap made with the first key that succeeds and
\* tries no later key of that collaborator.
C14_OrderedFirstSuccess ==
    IsGenerate =>
        \A l \in Processed :
            LET att == lastKr.tried[l]
                keys == lastKr.before[l].SSHKeys
                first == FirstValid(keys)
            IN  /\ Len(att) <= Len(keys)
                /\ \A n \in 1..Len(att) :
                      /\ att[n].i = n
                      /\ att[n].key = keys[n]
                      /\ n < Len(att) => att[n].outcome # "ok"
                      /\ att[n].outcome = "parse"
                            <=> ParseSSHPublicKey(keys[n]).err # ""
                      /\ att[n].outcome = "ok" =>
                            WrapsUnder(collaborators[l].EncryptedDEK, keys[n],
                                       lastKr.rawKey)
                /\ (\A n \in 1..Len(att) : att[n].outcome # "ok") =>
                      /\ Len(att) = Len(keys)
                      /\ collaborators[l].EncryptedDEK
                            = lastKr.before[l].EncryptedDEK
                /\ (first # 0 /\ lastKr.rawKey # <<>>) =>
                      /\ Len(att) = first
                      /\ WrapsUnder(collaborators[l].EncryptedDEK, keys[first],
                                    lastKr.rawKey)

\* a call that skipped an unparseable key and a non-RSA key of bob and
\* wrapped with his third key, and wrapped with the first of alice's two keys
C14_Witness ==
    /\ IsGenerate
    /\ lastKr.err = ""
    /\ Len(lastKr.tried["bob"]) = 3
    /\ lastKr.tried["bob"][1].outcome = "parse"
    /\ lastKr.tried["bob"][2].outcome = "parse"
    /\ lastKr.tried["bob"][3].outcome = "ok"
    /\ Len(lastKr.before["alice"].SSHKeys) = 2
    /\ Len(lastKr.tried["alice"]) = 1
    /\ WrapsUnder(collaborators["alice"].EncryptedDEK, RsaKey("alice", 256), dek)

\* C15: GetDecryptedDEK fails with the unknown-collaborator error when the
\* login has no record, and with an error of its own, different from the
\* unwrap-failure error and without calling the unwrap, when the record has
\* no wrapped DEK; the unwrap is attempted only otherwise.
C15_RecoverErrorCases ==
    lastKr.op = "GetDecryptedDEK" =>
        LET known == lastKr.login \in Present(lastKr.before)
            wrapped == known /\ lastKr.before[lastKr.login].EncryptedDEK # <<>>
        IN  /\ ~known => lastKr.res.err = ErrNoCollaborator
            /\ (known /\ ~wrapped) =>
                  /\ lastKr.res.err \notin {"", ErrNoCollaborator, ErrDecryptWithKey}
                  /\ lastKr.res.lib = <<>>
            /\ lastKr.res.lib # <<>> => wrapped

\* C16: AddCollaborator or UpdateCollaborators applied to a login whose
\* record has a wrapped DEK leaves that record with the new key list and the
\* same wrapped DEK; the records of all other logins are unchanged.
C16_UpsertPreservesWrappedKey ==
    /\ lastKr.op = "AddCollaborator" =>
          /\ lastKr.before[lastKr.login].EncryptedDEK # <<>> =>
                collaborators[lastKr.login] =
                    [present |-> TRUE, SSHKeys |-> lastKr.keys,
                     EncryptedDEK |-> lastKr.before[lastKr.login].EncryptedDEK]
          /\ \A l \in Logins \ {lastKr.login} :
                collaborators[l] = lastKr.before[l]
    /\ lastKr.op = "UpdateCollaborators" =>
          \A l \in Logins :
              IF lastKr.update[l].present
              THEN lastKr.before[l].EncryptedDEK # <<>> =>
                      collaborators[l] =
                          [present |-> TRUE,
                           SSHKeys |-> lastKr.update[l].SSHKeys,
                           EncryptedDEK |-> lastKr.before[l].EncryptedDEK]
              ELSE collaborators[l] = lastKr.before[l]

\* C17: RemoveCollaborator(login) deletes the record of that login and no
\* other, writes the table to the file, and leaves the raw DEK and the key
\* lists and wrapped DEKs of all other collaborators as they were; for a
\* login that has no record the table stays as it was.
C17_RemoveFrame ==
    lastKr.op = "RemoveCollaborator" =>
        /\ lastKr.login \notin Present(collaborators)
        /\ \A l \in Logins \ {lastKr.login} :
              collaborators[l] = lastKr.before[l]
        /\ dek = lastKr.rawKey
        /\ lastKr.login \notin Present(lastKr.before) =>
              collaborators = lastKr.before
        /\ lastKr.w = "ok" =>
              /\ disk = FileOf(jsonMarshal(collaborators, dek))
              /\ LoadKeyring(disk).keyring = collaborators

\* alice, who had a wrapped DEK, is removed while bob has one, and the file
\* is written
C17_Witness ==
    /\ lastKr.op = "RemoveCollaborator"
    /\ lastKr.login = "alice"
    /\ lastKr.before["alice"].EncryptedDEK # <<>>
    /\ collaborators["bob"].EncryptedDEK # <<>>
    /\ ~collaborators["alice"].present
    /\ lastKr.w = "ok"
    /\ disk # lastKr.diskBefore
    /\ dek # <<>>

\* the calls that write the file
Saves == {"Save", "AddCollaborator", "RemoveCollaborator", "UpdateCollaborators"}

\* C18: what Save writes holds the collaborator table (logins, public keys,
\* wrapped DEKs) and never the raw DEK, also when the DEK manager holds a
\* generated raw key at the time.
C18_RawKeyNeverPersisted ==
    (lastKr.op \in Saves /\ lastKr.w = "ok") =>
        /\ disk.kind = "json"
        /\ DOMAIN disk.data = {"collaborators", "DEK"}
        /\ disk.data.DEK.members = {}
        /\ disk.data.DEK.rawKey = <<>>
        /\ DOMAIN disk.data.collaborators = Present(collaborators)
        /\ \A l \in Present(collaborators) :
              /\ disk.data.collaborators[l] = JsonCollaborator(collaborators[l])
              /\ dek # <<>> => disk.data.collaborators[l].encrypted_dek.v # dek

\* a Save of a keyring whose manager holds a raw key and whose table has a
\* wrapped DEK
C18_Witness ==
    /\ lastKr.op = "Save"
    /\ lastKr.w = "ok"
    /\ Len(dek) = keySize
    /\ \E l \in Present(collaborators) :
          /\ collaborators[l].EncryptedDEK # <<>>
          /\ disk.data.collaborators[l].encrypted_dek.json = "base64"

\* the private key is the one of the key that the wrapped DEK e was made for
Matches(privateKey, e) ==
    /\ e # <<>>
    /\ e[1].pub = privateKey.id
    /\ e[1].size = privateKey.size

C20_LoadOutcomes ==
    lastKr.op = "LoadKeyring" =>
        /\ lastKr.diskBefore.kind = "missing" =>
              /\ lastKr.err = ErrReadKeyring
              /\ lastKr.cause = "os.ErrNotExist"
              /\ lastKr.keyring = "nil"
        /\ lastKr.diskBefore.kind = "malformed" =>
              /\ lastKr.err = ErrParseKeyring
              /\ lastKr.cause = "json.SyntaxError"
              /\ lastKr.keyring = "nil"
        /\ lastKr.err = "" <=> lastKr.diskBefore.kind = "json"
        /\ lastKr.err # "" => collaborators = lastKr.before

\* a load of the file that a failed write left cut short, by a program
\* that holds a keyring with a collaborator
C20_Witness ==
    /\ lastKr.op = "LoadKeyring"
    /\ lastKr.diskBefore = BadFile
    /\ lastKr.err = ErrParseKeyring
    /\ lastKr.keyring = "nil"
    /\ Present(collaborators) # {}

(***************************************************************************)
(* The shared key in the repository secret: github.GetEncryptionKey,       *)
(* github.StoreEncryptionKey and KeyManager.GetOrCreateEncryptionKey.      *)
(*                                                                         *)
(* The gh and git commands, the workflow and the artifact are outside the  *)
(* program.  What they answer in one run is env: which commands fail, what *)
(* `gh run view` reports at each poll, from which poll on the artifact is  *)
(* listed, and what the downloaded file holds.                             *)
(*                                                                         *)
(* fmt.Println and fmt.Printf write to os.Stdout, so every status line     *)
(* below is part of what a command writes on standard output: out.         *)
(***************************************************************************)
\* "Retrieving encryption key via GitHub workflow..."
TextRetrieving ==
    << 82, 101, 116, 114, 105, 101, 118, 105, 110, 103, 32, 101, 110, 99,
       114, 121, 112, 116, 105, 111, 110, 32, 107, 101, 121, 32, 118, 105,
       97, 32, 71, 105, 116, 72, 117, 98, 32, 119, 111, 114, 107, 102, 108,
       111, 119, 46, 46, 46 >>

\* "No existing encryption key found. Creating new key..."
TextNoExisting ==
    << 78, 111, 32, 101, 120, 105, 115, 116, 105, 110, 103, 32, 101, 110, 99,
       114, 121, 112, 116, 105, 111, 110, 32, 107, 101, 121, 32, 102, 111,
       117, 110, 100, 46, 32, 67, 114, 101, 97, 116, 105, 110, 103, 32, 110,
       101, 119, 32, 107, 101, 121, 46, 46, 46 >>

\* "(check mark) New encryption key created and stored in GitHub repository secrets"
TextCreated ==
    << 226, 156, 147, 32, 78, 101, 119, 32, 101, 110, 99, 114, 121, 112, 116,
       105, 111, 110, 32, 107, 101, 121, 32, 99, 114, 101, 97, 116, 101, 100,
       32, 97, 110, 100, 32, 115, 116, 111, 114, 101, 100, 32, 105, 110, 32,
       71, 105, 116, 72, 117, 98, 32, 114, 101, 112, 111, 115, 105, 116, 111,
       114, 121, 32, 115, 101, 99, 114, 101, 116, 115 >>

\* "(check mark) Existing encryption key retrieved from GitHub repository secrets"
TextExisting ==
    << 226, 156, 147, 32, 69, 120, 105, 115, 116, 105, 110, 103, 32, 101,
       110, 99, 114, 121, 112, 116, 105, 111, 110, 32, 107, 101, 121, 32,
       114, 101, 116, 114, 105, 101, 118, 101, 100, 32, 102, 114, 111, 109,
       32, 71, 105, 116, 72, 117, 98, 32, 114, 101, 112, 111, 115, 105, 116,
       111, 114, 121, 32, 115, 101, 99, 114, 101, 116, 115 >>

\* "Triggering GitHub workflow to retrieve encryption key..."
TextTriggering ==
    << 84, 114, 105, 103, 103, 101, 114, 105, 110, 103, 32, 71, 105, 116, 72,
       117, 98, 32, 119, 111, 114, 107, 102, 108, 111, 119, 32, 116, 111, 32,
       114, 101, 116, 114, 105, 101, 118, 101, 32, 101, 110, 99, 114, 121,
       112, 116, 105, 111, 110, 32, 107, 101, 121, 46, 46, 46 >>

\* "Waiting for workflow run "
TextWaitingRun ==
    << 87, 97, 105, 116, 105, 110, 103, 32, 102, 111, 114, 32, 119, 111, 114,
       107, 102, 108, 111, 119, 32, 114, 117, 110, 32 >>

\* " to complete..."
TextToComplete ==
    << 32, 116, 111, 32, 99, 111, 109, 112, 108, 101, 116, 101, 46, 46, 46 >>

\* "(check mark) Workflow completed successfully"
TextCompleted ==
    << 226, 156, 147, 32, 87, 111, 114, 107, 102, 108, 111, 119, 32, 99, 111,
       109, 112, 108, 101, 116, 101, 100, 32, 115, 117, 99, 99, 101, 115,
       115, 102, 117, 108, 108, 121 >>

\* "Still waiting for workflow completion... (attempt "
TextStillWaiting ==
    << 83, 116, 105, 108, 108, 32, 119, 97, 105, 116, 105, 110, 103, 32, 102,
       111, 114, 32, 119, 111, 114, 107, 102, 108, 111, 119, 32, 99, 111,
       109, 112, 108, 101, 116, 105, 111, 110, 46, 46, 46, 32, 40, 97, 116,
       116, 101, 109, 112, 116, 32 >>

\* "/60)"
TextOf60 ==
    << 47, 54, 48, 41 >>

\* "Waiting for encryption key artifact to be available..."
TextWaitingArtifact ==
    << 87, 97, 105, 116, 105, 110, 103, 32, 102, 111, 114, 32, 101, 110, 99,
       114, 121, 112, 116, 105, 111, 110, 32, 107, 101, 121, 32, 97, 114,
       116, 105, 102, 97, 99, 116, 32, 116, 111, 32, 98, 101, 32, 97, 118,
       97, 105, 108, 97, 98, 108, 101, 46, 46, 46 >>

\* "Downloading encryption key artifact..."
TextDownloading ==
    << 68, 111, 119, 110, 108, 111, 97, 100, 105, 110, 103, 32, 101, 110, 99,
       114, 121, 112, 116, 105, 111, 110, 32, 107, 101, 121, 32, 97, 114,
       116, 105, 102, 97, 99, 116, 46, 46, 46 >>

\* "(check mark) Encryption key retrieved successfully"
TextRetrieved ==
    << 226, 156, 147, 32, 69, 110, 99, 114, 121, 112, 116, 105, 111, 110, 32,
       107, 101, 121, 32, 114, 101, 116, 114, 105, 101, 118, 101, 100, 32,
       115, 117, 99, 99, 101, 115, 115, 102, 117, 108, 108, 121 >>

\* the line feed that fmt.Println appends and that the formats end with
Line(text) == Bytes(text \o <<10>>)

\* %d of a number that is not negative
RECURSIVE Itoa(_)
Itoa(n) == IF n < 10 THEN <<48 + n>> ELSE Itoa(n \div 10) \o <<48 + (n % 10)>>

\* the polls of `gh run view` and of the artifact list that one run makes
maxStatusPolls == 60
maxArtifactPolls == 30

ErrCurrentUser == "failed to get current user"
ErrTriggerWorkflow == "failed to trigger workflow"
ErrGetWorkflowRun == "failed to get workflow run"
ErrParseWorkflowRuns == "failed to parse workflow runs"
ErrNoWorkflowRuns == "no workflow runs found"
ErrCheckStatus == "failed to check workflow status"
ErrParseStatus == "failed to parse workflow status"
ErrConclusionFailure == "workflow failed with conclusion"
ErrWorkflowCancelled == "workflow was cancelled"
ErrUnexpectedConclusion == "workflow completed with unexpected conclusion"
ErrWorkflowFailed == "workflow failed"
ErrRepositoryInfo == "failed to get repository info"
ErrArtifactNotAvailable == "artifact not available after 30 seconds"
ErrDownloadArtifact == "failed to download artifact"
ErrReadKeyFile == "failed to read key file"
ErrDecodeKey == "failed to decode key"
ErrGenerateEncryptionKey == "failed to generate encryption key"
ErrStoreEncryptionKey == "failed to store encryption key"

\* base64.StdEncoding.EncodeToString(key): text that decodes to key
EncodeToString(key) == [enc |-> "base64", of |-> key]

\* base64.StdEncoding.DecodeString(strings.TrimSpace(text)): the empty text
\* decodes to no bytes, text that is not base64 is an error
DecodeString(text) ==
    IF text.enc = "base64" THEN [ok |-> TRUE, key |-> text.of]
    ELSE IF text.enc = "none" THEN [ok |-> TRUE, key |-> <<>>]
    ELSE [ok |-> FALSE, key |-> <<>>]

\* one command run by the program and what it was answered
Cmd(name, answer) == [cmd |-> name, answer |-> answer]

\* what `gh run view --json status,conclusion` answers at poll i (0-based):
\* "in_progress" for the first env.pending polls, env.then from then on
StatusAt(env, i) ==
    IF i < env.pending
    THEN [ok |-> TRUE, json |-> TRUE, status |-> "in_progress", conclusion |-> ""]
    ELSE env.then

\* what a part of GetEncryptionKey hands on: the error, the lines printed
\* and the commands run so far
Got(key, err, out, cmds) ==
    [key |-> key, err |-> err, out |-> out, cmds |-> cmds]

(***************************************************************************)
(* waitForArtifact(ctx, runID, artifactName).  ArtifactPolls is the number *)
(* of times the loop, entered at poll i, lists the artifacts.              *)
(***************************************************************************)
RECURSIVE ArtifactPolls(_, _)
ArtifactPolls(env, i) ==
    IF i >= maxArtifactPolls THEN i
    ELSE IF i >= env.artifactAt THEN i + 1
    ELSE ArtifactPolls(env, i + 1)

waitForArtifact(env) ==
    LET polls == ArtifactPolls(env, 0)
        found == env.artifactAt < maxArtifactPolls
        listed == [k \in 1..polls |->
                     Cmd("gh api artifacts",
                         IF found /\ k = polls THEN "listed" ELSE "")]
    IN  IF ~env.repo
        THEN [err |-> ErrRepositoryInfo,
              cmds |-> <<Cmd("git remote get-url", "fail")>>]
        ELSE [err |-> IF found THEN "" ELSE ErrArtifactNotAvailable,
              cmds |-> <<Cmd("git remote get-url", "ok")>> \o listed]

(***************************************************************************)
(* GetEncryptionKey from line 196 on: the artifact is waited for,          *)
(* downloaded, read and decoded.                                           *)
(***************************************************************************)
DownloadKey(env, secretNow) ==
    LET out1 == Line(TextWaitingArtifact)
        w == waitForArtifact(env)
        out2 == out1 \o Line(TextDownloading)
        cmds2 == Append(w.cmds, Cmd("gh run download",
                                    IF env.download THEN "ok" ELSE "fail"))
        text == IF env.file = "secret" THEN secretNow
                ELSE IF env.file = "empty" THEN NoSecret
                ELSE [enc |-> "garbage", of |-> <<>>]
        decoded == DecodeString(text)
    IN  IF w.err # "" THEN Got(<<>>, w.err, out1, w.cmds)
        ELSE IF ~env.download THEN Got(<<>>, ErrDownloadArtifact, out2, cmds2)
        ELSE IF env.file = "missing"
        THEN Got(<<>>, ErrReadKeyFile, out2, cmds2)
        ELSE IF ~decoded.ok THEN Got(<<>>, ErrDecodeKey, out2, cmds2)
        ELSE Got(decoded.key, "", out2 \o Line(TextRetrieved), cmds2)

(***************************************************************************)
(* The status loop of GetEncryptionKey (lines 156-194).                    *)
(***************************************************************************)
\* how one pass of the loop ends for the answer run: "break", "continue",
\* or the error returned
Pass(run) ==
    IF ~run.ok THEN ErrCheckStatus
    ELSE IF ~run.json THEN ErrParseStatus
    ELSE IF run.status = "completed"
    THEN IF run.conclusion = "success" THEN "break"
         ELSE IF run.conclusion = "failure" THEN ErrConclusionFailure
         ELSE IF run.conclusion = "cancelled" THEN ErrWorkflowCancelled
         ELSE ErrUnexpectedConclusion
    ELSE IF run.status = "failed" THEN ErrWorkflowFailed
    ELSE IF run.status = "cancelled" THEN ErrWorkflowCancelled
    ELSE "continue"

\* the passes made by the loop entered at pass i, and how it is left: by
\* the break, by a return with an error, or by i < 60 becoming false ("")
RECURSIVE StatusLoop(_, _)
StatusLoop(env, i) ==
    IF i >= maxStatusPolls THEN [passes |-> i, end |-> ""]
    ELSE IF Pass(StatusAt(env, i)) = "continue" THEN StatusLoop(env, i + 1)
    ELSE [passes |-> i + 1, end |-> Pass(StatusAt(env, i))]

\* the progress lines printed by the passes i .. n - 1, which all continue
RECURSIVE StillWaiting(_, _)
StillWaiting(i, n) ==
    IF i >= n THEN <<>>
    ELSE IF i > 0 /\ i % 10 = 0
    THEN Bytes(TextStillWaiting \o Itoa(i + 1) \o TextOf60 \o <<10>>)
         \o StillWaiting(i + 1, n)
    ELSE StillWaiting(i + 1, n)

\* the lines printed and the commands run by the loop, and how it is left
WaitForCompletion(env) ==
    LET loop == StatusLoop(env, 0)
        continued == IF loop.end \in {"", "continue"} THEN loop.passes
                     ELSE loop.passes - 1
        viewed == [k \in 1..loop.passes |->
                     LET run == StatusAt(env, k - 1)
                     IN  Cmd("gh run view",
                             IF ~run.ok THEN <<"fail">>
                             ELSE IF ~run.json THEN <<"not json">>
                             ELSE <<run.status, run.conclusion>>)]
    IN  [end |-> loop.end,
         out |-> StillWaiting(0, continued)
                 \o (IF loop.end = "break" THEN Line(TextCompleted) ELSE <<>>),
         cmds |-> viewed]

(***************************************************************************)
(* github.GetEncryptionKey(ctx).  secretNow is what the repository secret  *)
(* holds while the workflow runs.                                          *)
(***************************************************************************)
GetEncryptionKey(env, secretNow) ==
    LET c1 == <<Cmd("gh api user", IF env.user THEN "ok" ELSE "fail")>>
        out1 == Line(TextTriggering)
        c2 == Append(c1, Cmd("gh workflow run",
                             IF env.trigger THEN "ok" ELSE "fail"))
        c3 == Append(c2, Cmd("gh run list", env.list))
        out2 == out1 \o Bytes(TextWaitingRun \o Itoa(env.runID)
                              \o TextToComplete \o <<10>>)
        waited == WaitForCompletion(env)
        key == DownloadKey(env, secretNow)
    IN  IF ~env.user THEN Got(<<>>, ErrCurrentUser, <<>>, c1)
        ELSE IF ~env.trigger THEN Got(<<>>, ErrTriggerWorkflow, out1, c2)
        ELSE IF env.list = "fail" THEN Got(<<>>, ErrGetWorkflowRun, out1, c3)
        ELSE IF env.list = "not json"
        THEN Got(<<>>, ErrParseWorkflowRuns, out1, c3)
        ELSE IF env.list = "no runs"
        THEN Got(<<>>, ErrNoWorkflowRuns, out1, c3)
        ELSE IF waited.end \notin {"", "break"}
        THEN Got(<<>>, waited.end, out2 \o waited.out, c3 \o waited.cmds)
        ELSE Got(key.key, key.err, out2 \o waited.out \o key.out,
                 c3 \o waited.cmds \o key.cmds)

(***************************************************************************)
(* crypto.GenerateEncryptionKey(): rnd is what                             *)
(* io.ReadFull(rand.Reader, key) delivers.                                 *)
(***************************************************************************)
GenerateEncryptionKey(rnd) ==
    IF ~rnd.ok THEN [key |-> <<>>, err |-> ErrGenerateEncryptionKey]
    ELSE [key |-> rnd.bytes, err |-> ""]

(***************************************************************************)
(* github.StoreEncryptionKey(ctx, key): `gh secret set` replaces the       *)
(* secret, whether or not one was set.                                     *)
(***************************************************************************)
StoreEncryptionKey(env, secretNow, key) ==
    IF ~env.store THEN [secret |-> secretNow, err |-> ErrStoreEncryptionKey]
    ELSE [secret |-> EncodeToString(key), err |-> ""]

(***************************************************************************)
(* KeyManager.GetOrCreateEncryptionKey(ctx): the key, the error, the lines *)
(* printed, the secret afterwards, what GetEncryptionKey returned, and     *)
(* whether a new key was stored.                                           *)
(***************************************************************************)
GetOrCreateEncryptionKey(env, secretNow) ==
    LET After(get) ==
            LET out1 == Line(TextRetrieving) \o get.out
                out2 == out1 \o Line(TextNoExisting)
                gen == GenerateEncryptionKey(env.rnd)
                stored == StoreEncryptionKey(env, secretNow, gen.key)
                Result(key, err, out, secretThen, created) ==
                    [key |-> key, err |-> err, out |-> out,
                     secret |-> secretThen, get |-> get, created |-> created]
            IN  IF get.err = ""
                THEN Result(get.key, "", out1 \o Line(TextExisting),
                            secretNow, FALSE)
                ELSE IF gen.err # ""
                THEN Result(<<>>, gen.err, out2, secretNow, FALSE)
                ELSE IF stored.err # ""
                THEN Result(<<>>, stored.err, out2, secretNow, FALSE)
                ELSE Result(gen.key, "", out2 \o Line(TextCreated),
                            stored.secret, TRUE)
    IN  After(GetEncryptionKey(env, secretNow))

(***************************************************************************)
(* The git filters of package cmd, which use the shared key: Clean and     *)
(* Smudge.  stdout is everything the run writes on standard output, which  *)
(* git takes as the filtered content.                                      *)
(***************************************************************************)
ErrReadInput == "failed to read input"
ErrWriteOutput == "failed to write output"
ErrGetKey == "failed to get encryption key"
ErrEncryptContent == "failed to encrypt content"
ErrWriteEncrypted == "failed to write encrypted content"
ErrDecryptContent == "failed to decrypt content"
ErrWritePlaintext == "failed to write plaintext content"

\* what a run of a filter leaves: its error and the error it wraps, its
\* standard output, the secret, and what the key manager did
Ran(err, cause, stdout, g) ==
    [err |-> err, cause |-> cause, stdout |-> stdout, secret |-> g.secret,
     get |-> g.get, key |-> g.key, created |-> g.created]

\* the key manager was not asked
NotAsked(secretNow) ==
    [key |-> <<>>, err |-> "", out |-> <<>>, secret |-> secretNow,
     get |-> NoGet, created |-> FALSE]

\* what reaches the reader of standard output: nothing once the pipe is
\* closed (fmt.Println drops its error, os.Stdout.Write returns it)
Written(env, bytes) == IF env.pipe THEN bytes ELSE <<>>

(***************************************************************************)
(* cmd.Clean()                                                             *)
(***************************************************************************)
Clean(input, env, secretNow) ==
    LET Encrypted(g, e) ==
            IF e.err # ""
            THEN Ran(ErrEncryptContent, e.err, Written(env, g.out), g)
            ELSE IF ~env.pipe
            THEN Ran(ErrWriteEncrypted, "os.Stdout.Write", <<>>, g)
            ELSE Ran("", "", g.out \o e.out, g)
        WithKey(g) ==
            IF g.err # "" THEN Ran(ErrGetKey, g.err, Written(env, g.out), g)
            ELSE Encrypted(g, EncryptFile(input, g.key, env.nonce))
    IN  IF ~env.stdin
        THEN Ran(ErrReadInput, "io.ReadAll", <<>>, NotAsked(secretNow))
        ELSE IF IsEncryptedFile(input)
        THEN IF ~env.pipe
             THEN Ran(ErrWriteOutput, "os.Stdout.Write", <<>>,
                      NotAsked(secretNow))
             ELSE Ran("", "", input, NotAsked(secretNow))
        ELSE WithKey(GetOrCreateEncryptionKey(env, secretNow))

(***************************************************************************)
(* cmd.Smudge()                                                            *)
(***************************************************************************)
Smudge(input, env, secretNow) ==
    LET Decrypted(g, d) ==
            IF d.err # ""
            THEN Ran(ErrDecryptContent, d.err, Written(env, g.out), g)
            ELSE IF ~env.pipe
            THEN Ran(ErrWritePlaintext, "os.Stdout.Write", <<>>, g)
            ELSE Ran("", "", g.out \o d.out, g)
        WithKey(g) ==
            IF g.err # "" THEN Ran(ErrGetKey, g.err, Written(env, g.out), g)
            ELSE Decrypted(g, DecryptFile(input, g.key))
    IN  IF ~env.stdin
        THEN Ran(ErrReadInput, "io.ReadAll", <<>>, NotAsked(secretNow))
        ELSE IF ~IsEncryptedFile(input)
        THEN IF ~env.pipe
             THEN Ran(ErrWriteOutput, "os.Stdout.Write", <<>>,
                      NotAsked(secretNow))
             ELSE Ran("", "", input, NotAsked(secretNow))
        ELSE WithKey(GetOrCreateEncryptionKey(env, secretNow))
(***************************************************************************)
(* The file .gitattributes.  A text is a sequence of pieces: a piece is a  *)
(* white-space character (" ", "\t", "\r", "\n") or a run of other         *)
(* characters that the program never takes apart (a path name, the         *)
(* attribute filter=ezenv, the words of a comment).                        *)
(***************************************************************************)
WhiteSpace == {" ", "\t", "\r", "\n"}

\* strings.Split(text, "\n"), from position i on, cur being the line begun
RECURSIVE SplitFrom(_, _, _)
SplitFrom(text, i, cur) ==
    IF i > Len(text) THEN <<cur>>
    ELSE IF text[i] = "\n" THEN <<cur>> \o SplitFrom(text, i + 1, <<>>)
    ELSE SplitFrom(text, i + 1, Append(cur, text[i]))

Split(text) == SplitFrom(text, 1, <<>>)

\* strings.Join(lines, "\n")
RECURSIVE Join(_)
Join(lines) ==
    IF Len(lines) = 0 THEN <<>>
    ELSE IF Len(lines) = 1 THEN lines[1]
    ELSE lines[1] \o <<"\n">> \o Join(Tail(lines))

\* strings.TrimSpace(line)
RECURSIVE TrimSpace(_)
TrimSpace(line) ==
    IF Len(line) = 0 THEN line
    ELSE IF line[1] \in WhiteSpace THEN TrimSpace(Tail(line))
    ELSE IF line[Len(line)] \in WhiteSpace
    THEN TrimSpace(SubSeq(line, 1, Len(line) - 1))
    ELSE line

\* strings.HasSuffix(text, "\n")
HasSuffix(text) == Len(text) > 0 /\ text[Len(text)] = "\n"

\* filePath + " filter=ezenv"
Pattern(filePath) == filePath \o <<" ", "filter=ezenv">>

\* the header that Init and AddFile write
HeaderLine == <<"# ezenv encrypted files", "\n">>

ErrNoFileSpecified == "no file specified"
ErrFileDoesNotExist == "file does not exist"
ErrReadAttributes == "failed to read .gitattributes"
ErrWriteAttributes == "failed to write .gitattributes"
ErrGitAddAttributes == "failed to add .gitattributes to git"
ErrNoAttributes == ".gitattributes file does not exist"
ErrPatternNotFound == "file pattern not found in .gitattributes"
ErrRemoveAttributes == "failed to remove .gitattributes"
ErrGitRmAttributes == "failed to remove .gitattributes from git"
ErrUpdateAttributes == "failed to update .gitattributes"
ErrLoadKeyring == "failed to load keyring"
ErrEncryptFile == "failed to encrypt file"

\* .gitattributes with this content
Attributes(content) == [exists |-> TRUE, content |-> content]

\* what a command leaves: the file and the error
Left(file, err) == [file |-> file, err |-> err]

(***************************************************************************)
(* containsPattern(content, filePath)                                      *)
(***************************************************************************)
containsPattern(content, filePath) ==
    LET lines == Split(content)
    IN  \E i \in 1..Len(lines) : TrimSpace(lines[i]) = Pattern(filePath)

(***************************************************************************)
(* addToGitAttributes(filePath).  env says which of the read, the write    *)
(* and the git command fail.                                               *)
(***************************************************************************)
addToGitAttributes(filePath, file, env) ==
    LET pattern == Pattern(filePath) \o <<"\n">>
        content == IF ~file.exists THEN HeaderLine \o pattern
                   ELSE IF ~containsPattern(file.content, filePath)
                   THEN file.content \o pattern
                   ELSE file.content
    IN  IF file.exists /\ ~env.read THEN Left(file, ErrReadAttributes)
        ELSE IF ~env.write THEN Left(file, ErrWriteAttributes)
        ELSE IF ~env.git THEN Left(Attributes(content), ErrGitAddAttributes)
        ELSE Left(Attributes(content), "")

(***************************************************************************)
(* cmd.AddFile(args) of the add command (with addToGitAttributes).         *)
(* env.stat says whether the file to add exists.                           *)
(***************************************************************************)
AddFile(args, file, env) ==
    IF Len(args) < 1 THEN Left(file, ErrNoFileSpecified)
    ELSE IF ~env.stat THEN Left(file, ErrFileDoesNotExist)
    ELSE addToGitAttributes(args[1], file, env)

\* the lines that are not the pattern of filePath
RECURSIVE OtherLines(_, _)
OtherLines(lines, filePath) ==
    IF Len(lines) = 0 THEN <<>>
    ELSE IF TrimSpace(lines[1]) # Pattern(filePath)
    THEN <<lines[1]>> \o OtherLines(Tail(lines), filePath)
    ELSE OtherLines(Tail(lines), filePath)

(***************************************************************************)
(* removeFromGitAttributes(filePath)                                       *)
(***************************************************************************)
removeFromGitAttributes(filePath, file, env) ==
    LET newLines == OtherLines(Split(file.content), filePath)
        joined == Join(newLines)
        newContent == IF HasSuffix(joined) THEN joined
                      ELSE joined \o <<"\n">>
        empty == \/ Len(newLines) = 0
                 \/ Len(newLines) = 1 /\ TrimSpace(newLines[1]) = <<>>
    IN  IF ~file.exists THEN Left(file, ErrNoAttributes)
        ELSE IF ~env.read THEN Left(file, ErrReadAttributes)
        ELSE IF ~containsPattern(file.content, filePath)
        THEN Left(file, ErrPatternNotFound)
        ELSE IF empty
        THEN IF ~env.write THEN Left(file, ErrRemoveAttributes)
             ELSE IF ~env.git THEN Left(NoAttributes, ErrGitRmAttributes)
             ELSE Left(NoAttributes, "")
        ELSE IF ~env.write THEN Left(file, ErrWriteAttributes)
        ELSE IF ~env.git
        THEN Left(Attributes(newContent), ErrGitAddAttributes)
        ELSE Left(Attributes(newContent), "")

(***************************************************************************)
(* cmd.RemoveFile(args)                                                    *)
(***************************************************************************)
RemoveFile(args, file, env) ==
    IF Len(args) < 1 THEN Left(file, ErrNoFileSpecified)
    ELSE removeFromGitAttributes(args[1], file, env)

(***************************************************************************)
(* setupGitAttributes() of Init                                            *)
(***************************************************************************)
setupGitAttributes ==
    Attributes(HeaderLine \o
               <<"# Files will be added here when you run 'git ez-env add <file>'",
                 "\n">>)
(***************************************************************************)
(* cmd.Init(args) of the init command: the key is retrieved or created,    *)
(* then the workflow file, .gitattributes and the git configuration are    *)
(* written.  What Init prints goes to the terminal and is left out.        *)
(***************************************************************************)
ErrNotGitRepo == "not a git repository"
ErrGetOrCreateKey == "failed to get or create encryption key"
ErrWorkflowFile == "failed to write workflow file"
ErrSetupAttributes == "failed to set up git attributes"
ErrConfigureFilters == "failed to configure git filters"

Init(env, secretNow, file) ==
    LET WithKey(g) ==
            IF g.err # ""
            THEN [ran |-> Ran(ErrGetOrCreateKey, g.err, <<>>, g), file |-> file]
            ELSE IF ~env.workflow
            THEN [ran |-> Ran(ErrWorkflowFile, "os.WriteFile", <<>>, g),
                  file |-> file]
            ELSE IF ~env.write
            THEN [ran |-> Ran(ErrSetupAttributes, "os.WriteFile", <<>>, g),
                  file |-> file]
            ELSE IF ~env.git
            THEN [ran |-> Ran(ErrConfigureFilters, "git config", <<>>, g),
                  file |-> setupGitAttributes]
            ELSE [ran |-> Ran("", "", <<>>, g), file |-> setupGitAttributes]
    IN  IF ~env.gitRepo
        THEN [ran |-> Ran(ErrNotGitRepo, "git rev-parse", <<>>,
                          NotAsked(secretNow)),
              file |-> file]
        ELSE WithKey(GetOrCreateEncryptionKey(env, secretNow))

(***************************************************************************)
(* What the surroundings may answer in one run.                            *)
(***************************************************************************)
\* `gh run view` reports a completed run with this conclusion
Completed(conclusion) ==
    [ok |-> TRUE, json |-> TRUE, status |-> "completed",
     conclusion |-> conclusion]

\* `gh run view` reports this status and no conclusion
Status(status) ==
    [ok |-> TRUE, json |-> TRUE, status |-> status, conclusion |-> ""]

\* every command succeeds, the run has completed with success at the first
\* poll, the artifact is listed at once and holds the secret
EnvOk ==
    [user |-> TRUE, trigger |-> TRUE, list |-> "run", runID |-> 42,
     pending |-> 0, then |-> Completed("success"), repo |-> TRUE,
     artifactAt |-> 0, download |-> TRUE, file |-> "secret", store |-> TRUE,
     rnd |-> [ok |-> TRUE, bytes |-> Repeat(keySize, 7)],
     nonce |-> [ok |-> TRUE, bytes |-> Repeat(nonceSize, 7)],
     stdin |-> TRUE, pipe |-> TRUE, gitRepo |-> TRUE, workflow |-> TRUE,
     write |-> TRUE, git |-> TRUE]

\* what a poll of the status may be answered once the run is no longer in
\* progress: a conclusion, a status without one, a failing command, output
\* that is not JSON
Answers ==
    { Completed("success"), Completed("failure"), Completed("cancelled"),
      Completed("skipped"), Completed(""), Status("failed"),
      Status("cancelled"), Status("queued"),
      [Status("") EXCEPT !.ok = FALSE], [Status("") EXCEPT !.json = FALSE] }

\* for how many polls the run stays in progress: none, one, up to the first
\* and past the first progress line, all but one, and all of them
PendingChoices == {0, 1, 10, 11, maxStatusPolls - 1, maxStatusPolls}

\* from which poll on the artifact is listed: at once, at the last poll,
\* never
ArtifactChoices == {0, maxArtifactPolls - 1, maxArtifactPolls}

\* the runs of GetEncryptionKey: every course of the polls, and each command
\* failing with the run completed at once and with the run never completing
GitHubEnvs ==
    { [EnvOk EXCEPT !.pending = n, !.then = a, !.artifactAt = m] :
        n \in PendingChoices, a \in Answers, m \in ArtifactChoices }
    \cup
    { [e EXCEPT !.pending = n] :
        n \in {0, maxStatusPolls},
        e \in { [EnvOk EXCEPT !.user = FALSE], [EnvOk EXCEPT !.trigger = FALSE],
                [EnvOk EXCEPT !.list = "fail"], [EnvOk EXCEPT !.list = "not json"],
                [EnvOk EXCEPT !.list = "no runs"], [EnvOk EXCEPT !.repo = FALSE],
                [EnvOk EXCEPT !.download = FALSE],
                [EnvOk EXCEPT !.file = "missing"],
                [EnvOk EXCEPT !.file = "garbage"],
                [EnvOk EXCEPT !.file = "empty"] } }

\* the runs of GetEncryptionKey that the filters and init are checked with:
\* success, the run still in progress after every poll (with and without
\* the artifact), a failed run, and a key file that does not decode or is
\* empty
RetrievalEnvs ==
    { EnvOk,
      [EnvOk EXCEPT !.pending = maxStatusPolls],
      [EnvOk EXCEPT !.pending = maxStatusPolls, !.artifactAt = maxArtifactPolls],
      [EnvOk EXCEPT !.then = Completed("failure")],
      [EnvOk EXCEPT !.file = "garbage"],
      [EnvOk EXCEPT !.file = "empty"] }

\* the runs of a command: each retrieval, a failing retrieval also with
\* another new key, with rand.Reader failing and with `gh secret set`
\* failing; and every command succeeding but one step of the command itself
CommandEnvs ==
    RetrievalEnvs
    \cup
    { [EnvOk EXCEPT !.then = Completed("failure"), !.store = s, !.rnd = r] :
        s \in BOOLEAN, r \in RandReads(keySize) }
    \cup
    { [EnvOk EXCEPT !.nonce = r] : r \in RandReads(nonceSize) }
    \cup
    { [EnvOk EXCEPT !.stdin = FALSE], [EnvOk EXCEPT !.pipe = FALSE],
      [EnvOk EXCEPT !.gitRepo = FALSE], [EnvOk EXCEPT !.workflow = FALSE],
      [EnvOk EXCEPT !.write = FALSE], [EnvOk EXCEPT !.git = FALSE] }
(***************************************************************************)
(* The runs of init, clean and smudge.                                     *)
(***************************************************************************)
\* the state of the file cipher and of the DEK manager
coreVars == <<encLog, last, dek, wrapLog, lastDek>>

\* how many clean runs of fresh content are followed
MaxCleans == 1

\* the content that git hands to clean when a file is staged: empty, text,
\* and content that happens to begin 00 00 00 01
FreshInputs == { <<>> } \cup PlainData

\* content that was never through clean and that git hands to smudge
StoredInputs == PlainData \cup { Bytes(<<0, 0, 0, 1>> \o Repeat(28, 0)) }

\* what the latest of the followed clean runs wrote
LatestBlob == index.blob

Called(op, input, derived, env, r) ==
    [op |-> op, input |-> input, derived |-> derived, env |-> env,
     stdout |-> r.stdout, err |-> r.err, cause |-> r.cause, get |-> r.get,
     key |-> r.key, created |-> r.created, secretBefore |-> secret]

DoClean(input, derived, env) ==
    \E r \in { Clean(input, env, secret) } :
        /\ lastFilter' = Called("Clean", input, derived, env, r)
        /\ secret' = r.secret
        /\ index' = IF derived THEN index
                    ELSE IF r.err # ""
                    THEN [index EXCEPT !.staged = @ + 1]
                    ELSE [staged |-> index.staged + 1,
                          blob |-> [input |-> input, stdout |-> r.stdout,
                                    key |-> r.key, secret |-> r.secret]]

\* git runs the clean filter: on fresh content in any surroundings, or, in
\* each course of the retrieval, on what the latest clean run wrote
CallClean ==
    /\ lastFilter.op = "none"
    /\ \/ /\ index.staged < MaxCleans
          /\ \E env \in CommandEnvs, input \in FreshInputs :
                DoClean(input, FALSE, env)
       \/ /\ LatestBlob # NoBlob
          /\ \E env \in RetrievalEnvs : DoClean(LatestBlob.stdout, TRUE, env)
    /\ UNCHANGED <<coreVars, keyringVars, proc, attrVars>>

DoSmudge(input, derived, env) ==
    \E r \in { Smudge(input, env, secret) } :
        /\ lastFilter' = Called("Smudge", input, derived, env, r)
        /\ secret' = r.secret

\* git runs the smudge filter: on content that was stored without the
\* filter in any surroundings, or, in each course of the retrieval, on what
\* the latest clean run wrote
CallSmudge ==
    /\ lastFilter.op = "none"
    /\ \/ \E env \in CommandEnvs, input \in StoredInputs :
             DoSmudge(input, FALSE, env)
       \/ /\ LatestBlob # NoBlob
          /\ \E env \in RetrievalEnvs : DoSmudge(LatestBlob.stdout, TRUE, env)
    /\ UNCHANGED <<coreVars, keyringVars, index, proc, attrVars>>

\* git ez-env init
CallInit ==
    /\ lastFilter.op = "none"
    /\ \E env \in CommandEnvs :
          \E r \in { Init(env, secret, gitattributes) } :
              /\ lastFilter' = Called("Init", <<>>, FALSE, env, r.ran)
              /\ secret' = r.ran.secret
              /\ gitattributes' = r.file
    /\ UNCHANGED <<coreVars, keyringVars, index, proc, lastAttr>>

\* the run is over
FilterReturn ==
    /\ lastFilter.op # "none"
    /\ lastFilter' = NoFilterCall
    /\ UNCHANGED <<coreVars, keyringVars, secret, index, proc, attrVars>>

InitFilter ==
    /\ encLog = <<>>
    /\ last = NoCall
    /\ dek = <<>>
    /\ wrapLog = <<>>
    /\ lastDek = NoDekCall
    /\ InitKeyringVars
    /\ InitCommandVars

NextFilter == CallInit \/ CallClean \/ CallSmudge \/ FilterReturn

SpecFilter == InitFilter /\ [][NextFilter]_vars

(***************************************************************************)
(* The runs of GetEncryptionKey by itself, with every course of the polls. *)
(***************************************************************************)
CallGetEncryptionKey ==
    /\ lastFilter.op = "none"
    /\ \E env \in GitHubEnvs :
          lastFilter' =
              [NoFilterCall EXCEPT !.op = "GetEncryptionKey", !.env = env,
                                   !.get = GetEncryptionKey(env, secret),
                                   !.secretBefore = secret]
    /\ UNCHANGED <<coreVars, keyringVars, secret, index, proc, attrVars>>

NextGitHub == CallInit \/ CallGetEncryptionKey \/ FilterReturn

SpecGitHub == InitFilter /\ [][NextGitHub]_vars

(***************************************************************************)
(* Claims about the filters and the shared key.                            *)
(***************************************************************************)
IsClean == lastFilter.op = "Clean"
IsSmudge == lastFilter.op = "Smudge"

\* data is the output of an EncryptFile call: version 1, a nonce, and the
\* output of a Seal under that nonce
IsPayload(data) ==
    /\ Len(data) >= versionSize + nonceSize + tagSize
    /\ IsEncryptedFile(data)
    /\ LET nonce == Slice(data, versionSize, versionSize + nonceSize)
           ciphertext == Slice(data, versionSize + nonceSize, Len(data))
       IN  /\ ciphertext[1].k = "gcm"
           /\ ciphertext = gcmSeal(ciphertext[1].s[1], nonce, ciphertext[1].s[3])

\* data ends with the bytes of suffix
EndsWith(data, suffix) ==
    /\ Len(data) >= Len(suffix)
    /\ SubSeq(data, Len(data) - Len(suffix) + 1, Len(data)) = suffix

\* C21: no silent fallback to plaintext on the encrypt path.  A clean run
\* either returns an error, or what it writes is (whatever precedes it on
\* standard output) the payload that EncryptFile makes of the input under
\* the 32-byte key retrieved, or the input itself when that is a payload
\* made earlier; content that is not a payload, such as plaintext that
\* begins 00 00 00 01, is never written as it came.
C21_NoPlaintextFallback ==
    IsClean /\ lastFilter.err = "" =>
        \/ /\ Len(lastFilter.key) = keySize
           /\ EndsWith(lastFilter.stdout,
                       EncryptFile(lastFilter.input, lastFilter.key,
                                   lastFilter.env.nonce).out)
        \/ /\ IsPayload(lastFilter.input)
           /\ lastFilter.stdout = lastFilter.input

\* C22: idempotence of the encrypt path.  A clean run on what an earlier
\* clean run wrote writes its input back unchanged, returns no error, and
\* neither retrieves nor creates the key.
C22_CleanIdempotent ==
    IsClean /\ lastFilter.derived =>
        /\ lastFilter.err = ""
        /\ lastFilter.stdout = lastFilter.input
        /\ lastFilter.get = NoGet
        /\ ~lastFilter.created
        /\ secret = lastFilter.secretBefore

\* the surroundings of the run retrieve the key that the latest clean run
\* used: every command succeeds and the secret is the one it left
SameKey ==
    /\ lastFilter.env = EnvOk
    /\ lastFilter.secretBefore = LatestBlob.secret

\* C24: filter round trip.  A smudge run on what a clean run wrote for the
\* content P, under the same encryption key, returns no error and writes
\* exactly P, whatever P is.
C24_FilterRoundTrip ==
    IsSmudge /\ lastFilter.derived /\ SameKey =>
        /\ lastFilter.err = ""
        /\ lastFilter.stdout = LatestBlob.input

\* the run asked the key manager for the key
AskedForKey ==
    /\ lastFilter.op \in {"Clean", "Smudge"}
    /\ lastFilter.get # NoGet

\* C25: the filters never replace an existing shared key.  A clean or smudge
\* run that asks for the key while the repository secret is set leaves the
\* secret as it was and stores no new key, however the retrieval ends.
C25_ExistingKeyKept ==
    AskedForKey /\ lastFilter.secretBefore # NoSecret =>
        /\ ~lastFilter.created
        /\ secret = lastFilter.secretBefore

(***************************************************************************)
(* Claims about GetEncryptionKey.                                          *)
(***************************************************************************)
IsGetEncryptionKey == lastFilter.op = "GetEncryptionKey"

\* the commands of the call that wait for the artifact and download it
ArtifactCmds == {"git remote get-url", "gh api artifacts", "gh run download"}

\* command k of the call was `gh run view` answered completed and success
SawSuccess(k) ==
    /\ lastFilter.get.cmds[k].cmd = "gh run view"
    /\ lastFilter.get.cmds[k].answer = <<"completed", "success">>

\* C26: GetEncryptionKey waits for the artifact and downloads it only after
\* a poll has shown the run completed with conclusion success; a call in
\* which no poll showed that returns an error and runs none of the commands
\* of the download.
C26_DownloadOnlyAfterSuccess ==
    IsGetEncryptionKey =>
        LET cmds == lastFilter.get.cmds
        IN  /\ \A k \in 1..Len(cmds) :
                  cmds[k].cmd \in ArtifactCmds =>
                      \E j \in 1..(k - 1) : SawSuccess(j)
            /\ (\A j \in 1..Len(cmds) : ~SawSuccess(j)) =>
                   lastFilter.get.err # ""

(***************************************************************************)
(* Processes that run side by side on the file .gitenv_keyring.  Each runs *)
(* LoadKeyring, then AddCollaborator or RemoveCollaborator, whose Save     *)
(* calls os.WriteFile: the file is opened with O_TRUNC, which empties it,  *)
(* and then written from its start.  Nothing in Save takes a lock, so the  *)
(* steps of the processes interleave freely.                               *)
(***************************************************************************)
\* the file after os.WriteFile has opened it (O_WRONLY|O_CREATE|O_TRUNC)
EmptyFile == [kind |-> "empty"]

\* a variant: the content goes to a temporary file that is renamed over
\* the keyring file at the end, so opening leaves the keyring file alone
Truncate_TempFile(file) == file

Truncate(file) == EmptyFile

\* the file after data was written from its start: the document, or, when
\* another process has written a different document since the file was
\* opened, possibly that document's tail after the new one (longer = TRUE),
\* which is no JSON document
WriteFromStart(file, data, longer) ==
    IF file.kind = "empty" \/ file = FileOf(data) \/ ~longer THEN FileOf(data)
    ELSE BadFile

\* the changes of the table the processes make
Mutations ==
    { [op |-> "AddCollaborator", login |-> "bob",
       keys |-> <<RsaKey("bob", 256)>>],
      [op |-> "AddCollaborator", login |-> "alice",
       keys |-> <<RsaKey("alice", 256), RsaKey("alice2", 256)>>],
      [op |-> "RemoveCollaborator", login |-> "alice", keys |-> <<>>] }

\* the table after the change m, as AddCollaborator and RemoveCollaborator
\* leave it in memory
Mutated(collabs, m) ==
    IF m.op = "AddCollaborator"
    THEN AddCollaborator(collabs, <<>>, NoFile, m.login, m.keys, "ok").collabs
    ELSE RemoveCollaborator(collabs, <<>>, NoFile, m.login, "ok").collabs

\* keyring, err := LoadKeyring(); a process that gets an error stops
ProcLoadKeyring(p) ==
    /\ proc[p].pc = "start"
    /\ LET r == LoadKeyring(disk)
       IN  proc' = [proc EXCEPT ![p] =
                       IF r.err # ""
                       THEN [@ EXCEPT !.pc = "failed", !.loaded = disk,
                                      !.err = r.err]
                       ELSE [@ EXCEPT !.pc = "loaded", !.loaded = disk,
                                      !.keyring = r.keyring]]
    /\ UNCHANGED <<coreVars, keyringVars, filterVars, attrVars>>

\* keyring.AddCollaborator(login, sshKeys) or RemoveCollaborator(login), up
\* to the opening of the file in Save
ProcOpenFile(p) ==
    /\ proc[p].pc = "loaded"
    /\ \E m \in Mutations :
          proc' = [proc EXCEPT ![p] =
                      [@ EXCEPT !.pc = "writing", !.mutation = m,
                                !.keyring = Mutated(@, m),
                                !.replaced = disk, !.others = FALSE]]
    /\ disk' = Truncate(disk)
    /\ UNCHANGED <<coreVars, collaborators, lastKr, generation, filterVars,
                   attrVars>>

\* the rest of Save: the document is written and the file closed
ProcWriteFile(p) ==
    /\ proc[p].pc = "writing"
    /\ \E longer \in BOOLEAN :
          disk' = WriteFromStart(disk, jsonMarshal(proc[p].keyring, <<>>),
                                 longer)
    /\ proc' = [q \in Procs |->
                   IF q = p THEN [proc[q] EXCEPT !.pc = "saved"]
                   ELSE IF proc[q].pc = "writing"
                   THEN [proc[q] EXCEPT !.others = TRUE]
                   ELSE proc[q]]
    /\ UNCHANGED <<coreVars, collaborators, lastKr, generation, filterVars,
                   attrVars>>

\* the checkout holds the keyring file of an earlier run
InitConcurrent ==
    /\ encLog = <<>>
    /\ last = NoCall
    /\ dek = <<>>
    /\ wrapLog = <<>>
    /\ lastDek = NoDekCall
    /\ collaborators = NoCollaborators
    /\ disk = RepoFile
    /\ lastKr = NoKeyringCall
    /\ generation = [stage |-> "none", rawKey |-> <<>>,
                     collabs |-> NoCollaborators, calls |-> 0,
                     reloaded |-> FALSE]
    /\ InitCommandVars

NextConcurrent ==
    \E p \in Procs : ProcLoadKeyring(p) \/ ProcOpenFile(p) \/ ProcWriteFile(p)

SpecConcurrent == InitConcurrent /\ [][NextConcurrent]_vars

(***************************************************************************)
(* Claims about processes side by side.                                    *)
(***************************************************************************)
\* the table of a file that parses
TableOf(file) == jsonUnmarshal(file.data)

\* the change m shows in the table
Applied(m, collabs) ==
    collabs[m.login] = Mutated(collabs, m)[m.login]

\* the Save of q replaced the complete file that p had saved, q having
\* loaded the file before p saved it and changing another login: the file
\* is now q's document, and the change p made is gone
LostUpdate(p, q) ==
    /\ p # q
    /\ proc[p].pc = "saved" /\ proc[q].pc = "saved"
    /\ proc[q].replaced = FileOf(jsonMarshal(proc[p].keyring, <<>>))
    /\ proc[q].loaded # proc[q].replaced
    /\ proc[q].mutation.login # proc[p].mutation.login
    /\ Applied(proc[p].mutation, TableOf(proc[q].replaced))
    /\ disk = FileOf(jsonMarshal(proc[q].keyring, <<>>))
    /\ ~Applied(proc[p].mutation, TableOf(disk))

\* the LoadKeyring of r ran during the Save of q and read a file that is
\* neither the file that Save replaced nor the document it writes
TornRead(r, q) ==
    /\ r # q
    /\ proc[r].pc = "failed"
    /\ proc[r].err = ErrParseKeyring
    /\ proc[r].loaded = EmptyFile
    /\ proc[q].pc = "saved"
    /\ proc[q].replaced.kind = "json"
    /\ proc[r].loaded # proc[q].replaced
    /\ proc[r].loaded # FileOf(jsonMarshal(proc[q].keyring, <<>>))

\* C23: the core does not coordinate the processes on the keyring file.
\* Save writes the file in place: from the moment a process has opened the
\* file until a process writes it, the file is empty, whatever it held; and
\* what a process writes is made of the file it loaded, not of the file it
\* replaces.
C23_SaveInPlace ==
    \A p \in Procs :
        /\ proc[p].pc = "writing" /\ ~proc[p].others => disk = EmptyFile
        /\ proc[p].pc \in {"writing", "saved"} =>
              proc[p].keyring = Mutated(TableOf(proc[p].loaded), proc[p].mutation)

\* C23: the state in which the later Save has overwritten the update of
\* the other process, and a third process has loaded the file during that
\* Save and seen neither the old nor the new keyring
C23_Witness ==
    \E p, q, r \in Procs : LostUpdate(p, q) /\ TornRead(r, q)

(***************************************************************************)
(* The commands that work on the keyring file: NewKeyring, UpdateKeys and  *)
(* the clean filter of package filter.                                     *)
(***************************************************************************)
ErrGetCollaborators == "failed to get collaborators"
ErrUpdateKeyring == "failed to update keyring with collaborators"
ErrGenerateDEKs == "failed to generate encrypted DEKs"

\* crypto.NewKeyring(): the keyring loaded, or after any error of
\* LoadKeyring a keyring with no collaborator; its DEK manager is new.
\* loadErr is the error of LoadKeyring, which the caller never sees.
NewKeyring(file) ==
    LET l == LoadKeyring(file)
    IN  [collabs |-> IF l.err = "" THEN l.keyring ELSE NoCollaborators,
         rawKey |-> <<>>, loadErr |-> l.err]

\* a variant: no test for a manager without a raw key
DEKManagerEncryptFile_NoNilCheck(rawKey, plaintext, rnd) ==
    IF ~aesNewCipherOk(rawKey)
    THEN Res(<<>>, ErrCreateCipher, <<"aes.NewCipher">>)
    ELSE EncryptFile(plaintext, rawKey, rnd)

(***************************************************************************)
(* DEKManager.EncryptFile(plaintext), on a manager whose d.rawKey is       *)
(* rawKey.                                                                 *)
(***************************************************************************)
DEKManagerEncryptFile(rawKey, plaintext, rnd) ==
    IF rawKey = <<>> THEN Res(<<>>, ErrNoDEK, <<>>)
    ELSE IF ~aesNewCipherOk(rawKey)
    THEN Res(<<>>, ErrCreateCipher, <<"aes.NewCipher">>)
    ELSE IF ~rnd.ok
    THEN Res(<<>>, ErrGenerateNonce,
             <<"aes.NewCipher", "cipher.NewGCM", "rand.Read">>)
    ELSE LET nonce == Bytes(rnd.bytes)
             ciphertext == gcmSeal(rawKey, nonce, plaintext)
             output == BigEndianPutUint32(U32(1)) \o nonce \o ciphertext
         IN  Res(output, "",
                 <<"aes.NewCipher", "cipher.NewGCM", "rand.Read", "gcm.Seal">>)

(***************************************************************************)
(* filter.Clean(): the keyring is loaded, so its DEK manager is the one    *)
(* json.Unmarshal made of the DEK member of the file, with no raw key.     *)
(***************************************************************************)
FilterClean(input, file, stdin, pipe, rnd) ==
    LET l == LoadKeyring(file)
        e == DEKManagerEncryptFile(<<>>, input, rnd)
    IN  IF ~stdin THEN [stdout |-> <<>>, err |-> ErrReadInput, cause |-> ""]
        ELSE IF l.err # ""
        THEN [stdout |-> <<>>, err |-> ErrLoadKeyring, cause |-> l.err]
        ELSE IF e.err # ""
        THEN [stdout |-> <<>>, err |-> ErrEncryptContent, cause |-> e.err]
        ELSE IF ~pipe
        THEN [stdout |-> <<>>, err |-> ErrWriteEncrypted, cause |-> ""]
        ELSE [stdout |-> e.out, err |-> "", cause |-> ""]

(***************************************************************************)
(* cmd.UpdateKeys().  fetch is what github.GetRepositoryCollaborators      *)
(* returns: the collaborators with their SSH keys, or an error.  The       *)
(* result is the error with the error it wraps, the keyring the command    *)
(* ends with and the file afterwards.                                      *)
(***************************************************************************)
UpdateKeys(fetch, file, order, rnds, w) ==
    LET l == LoadKeyring(file)
        u == UpdateCollaborators(l.keyring, <<>>, file, fetch.collaborators, w)
        g == GenerateEncryptedDEKs(u.collabs, <<>>, order, rnds)
    IN  IF ~fetch.ok
        THEN [err |-> ErrGetCollaborators, cause |-> "", named |-> "",
              collabs |-> NoCollaborators, disk |-> file]
        ELSE IF l.err # ""
        THEN [err |-> ErrLoadKeyring, cause |-> l.err, named |-> "",
              collabs |-> NoCollaborators, disk |-> file]
        ELSE IF u.err # ""
        THEN [err |-> ErrUpdateKeyring, cause |-> u.err, named |-> "",
              collabs |-> u.collabs, disk |-> u.disk]
        ELSE IF g.err # ""
        THEN [err |-> ErrGenerateDEKs, cause |-> g.err, named |-> g.login,
              collabs |-> g.collabs, disk |-> u.disk]
        ELSE [err |-> "", cause |-> "", named |-> "", collabs |-> g.collabs,
              disk |-> u.disk]

\* a collaborator as fetched: SSH keys, no wrapped DEK
Fetched(sshKeys) ==
    [present |-> TRUE, SSHKeys |-> sshKeys, EncryptedDEK |-> <<>>]

\* what GetRepositoryCollaborators may return: an error, no collaborator,
\* bob, alice and bob
Fetches ==
    { [ok |-> FALSE, collaborators |-> NoCollaborators],
      [ok |-> TRUE, collaborators |-> NoCollaborators],
      [ok |-> TRUE, collaborators |->
          [NoCollaborators EXCEPT !["bob"] = Fetched(<<RsaKey("bob", 256)>>)]],
      [ok |-> TRUE, collaborators |->
          [NoCollaborators EXCEPT
              !["alice"] = Fetched(<<RsaKey("alice", 256)>>),
              !["bob"] = Fetched(<<BadKey, EdKey, RsaKey("bob", 256)>>)]] }

\* the table UpdateKeys hands to GenerateEncryptedDEKs
UpdatedTable(fetch, file) ==
    IF fetch.ok /\ LoadKeyring(file).err = ""
    THEN UpdateCollaborators(LoadKeyring(file).keyring, <<>>, file,
                             fetch.collaborators, "ok").collabs
    ELSE NoCollaborators

\* how many commands and calls that change the keyring are followed
MaxCommands == 3

CommandIdle ==
    /\ lastKr.op = "none"
    /\ lastDek.op = "none"
    /\ generation.calls < MaxCommands

CmdUpdateKeys ==
    /\ CommandIdle
    /\ \E fetch \in Fetches, w \in WriteOutcomes, rnds \in RandStreams :
          \E order \in Orders(UpdatedTable(fetch, disk)) :
              LET r == UpdateKeys(fetch, disk, order, rnds, w)
              IN  /\ collaborators' = r.collabs
                  /\ disk' = r.disk
                  /\ lastKr' = [NoKeyringCall EXCEPT !.op = "UpdateKeys",
                                   !.update = fetch, !.order = order,
                                   !.err = r.err, !.cause = r.cause,
                                   !.named = r.named, !.w = w,
                                   !.before = collaborators, !.rawKey = dek,
                                   !.diskBefore = disk]
    /\ dek' = <<>>
    /\ generation' = Restarted
    /\ UNCHANGED <<commandVars, encLog, last, wrapLog, lastDek>>

CmdNewKeyring ==
    /\ CommandIdle
    /\ LET r == NewKeyring(disk)
       IN  /\ collaborators' = r.collabs
           /\ dek' = r.rawKey
           /\ lastKr' = [NoKeyringCall EXCEPT !.op = "NewKeyring",
                            !.cause = r.loadErr, !.keyring = r.collabs,
                            !.before = collaborators, !.rawKey = dek,
                            !.diskBefore = disk]
    /\ generation' = Restarted
    /\ UNCHANGED <<commandVars, encLog, last, wrapLog, lastDek, disk>>

\* git runs the clean filter of package filter
CmdFilterClean ==
    /\ CommandIdle
    /\ \E input \in FreshInputs, stdin \in BOOLEAN, pipe \in BOOLEAN,
          rnd \in RandReads(nonceSize) :
          LET r == FilterClean(input, disk, stdin, pipe, rnd)
          IN  lastKr' = [NoKeyringCall EXCEPT !.op = "Clean",
                            !.res = Res(r.stdout, r.err, <<>>),
                            !.err = r.err, !.cause = r.cause,
                            !.before = collaborators, !.rawKey = dek,
                            !.diskBefore = disk]
    /\ generation' = Counted
    /\ UNCHANGED <<commandVars, encLog, last, dek, wrapLog, lastDek,
                   collaborators, disk>>

\* keyring.DEK.EncryptFile(plaintext) on the keyring the program holds
CallDEKManagerEncryptFile ==
    /\ lastKr.op = "none"
    /\ lastDek.op = "none"
    /\ \E plaintext \in FreshInputs, rnd \in RandReads(nonceSize) :
          lastDek' = [NoDekCall EXCEPT !.op = "EncryptFile",
                         !.blob = plaintext, !.rnd = rnd, !.rawKey = dek,
                         !.res = DEKManagerEncryptFile(dek, plaintext, rnd)]
    /\ UNCHANGED <<encLog, last, dek, wrapLog, keyringVars, commandVars>>

\* keyring.DEK.EncryptDEK(publicKey) on the keyring the program holds
CallManagerEncryptDEK ==
    /\ lastKr.op = "none"
    /\ lastDek.op = "none"
    /\ \E publicKey \in KeyPairs, rnd \in RandReads(HashSize("sha256")) :
          lastDek' = [NoDekCall EXCEPT !.op = "EncryptDEK", !.pair = publicKey,
                         !.rnd = rnd, !.rawKey = dek,
                         !.res = EncryptDEK(dek, publicKey, rnd)]
    /\ UNCHANGED <<encLog, last, dek, wrapLog, keyringVars, commandVars>>

\* the calls of the keyring that the commands are mixed with
CmdGenerateRawKey == CommandIdle /\ KeyringGenerateRawKey

CmdAddCollaborator == CommandIdle /\ KeyringAddCollaborator

CmdRemoveCollaborator == CommandIdle /\ KeyringRemoveCollaborator

CmdLoadKeyring == CommandIdle /\ KeyringLoad

CmdFileChanged == CommandIdle /\ FileChanged

NextCommand ==
    \/ CmdNewKeyring
    \/ CmdUpdateKeys
    \/ CmdFilterClean
    \/ CallDEKManagerEncryptFile
    \/ CallManagerEncryptDEK
    \/ ReturnDek
    \/ CmdGenerateRawKey
    \/ CmdAddCollaborator
    \/ CmdRemoveCollaborator
    \/ CmdLoadKeyring
    \/ CmdFileChanged
    \/ KeyringReturn

SpecCommand == InitKeyring /\ [][NextCommand]_vars

(***************************************************************************)
(* Claims about the keyring commands.                                      *)
(***************************************************************************)
IsUpdateKeys == lastKr.op = "UpdateKeys"

\* the collaborators of the file that have no wrapped DEK
Unwrapped(file) ==
    { l \in Present(TableOf(file)) : TableOf(file)[l].EncryptedDEK = <<>> }

\* every wrapped DEK of these logins in the table opens, with the private
\* key of one of the login's SSH keys, to one and the same 32-byte key
WrapOneKey(collabs, logins) ==
    \E rawKey \in { Repeat(keySize, b) : b \in {5, 7, 8} } :
        \A l \in logins :
            \E i \in KeyIndexes(collabs, l) :
                WrapsUnder(collabs[l].EncryptedDEK, collabs[l].SSHKeys[i], rawKey)

\* C27: after UpdateKeys has returned without error the keyring file holds,
\* for every collaborator fetched, a wrapped DEK that is not empty and that
\* unwraps to the shared DEK; after it has returned an error the file holds
\* no collaborator without a wrapped DEK.
C27_UpdateKeysWrapsAll ==
    IsUpdateKeys =>
        /\ lastKr.err = "" =>
              /\ disk.kind = "json"
              /\ Present(lastKr.update.collaborators) \subseteq Present(TableOf(disk))
              /\ Present(lastKr.update.collaborators) \cap Unwrapped(disk) = {}
              /\ WrapOneKey(TableOf(disk), Present(lastKr.update.collaborators))
        /\ (lastKr.err # "" /\ disk.kind = "json") => Unwrapped(disk) = {}


\* a call of the DEK manager made while it holds no raw key
CalledWithoutKey ==
    /\ lastDek.op \in {"EncryptFile", "EncryptDEK"}
    /\ lastDek.rawKey = <<>>

IsNewKeyring == lastKr.op = "NewKeyring"

\* the call changed the table of a keyring that holds the table of the
\* file, as after NewKeyring, and saved it
SavedOverFile ==
    /\ lastKr.op \in {"AddCollaborator", "RemoveCollaborator"}
    /\ lastKr.w = "ok"
    /\ lastKr.diskBefore.kind = "json"
    /\ lastKr.before = TableOf(lastKr.diskBefore)

\* C29: NewKeyring never discards an existing table.  It returns the
\* keyring with no collaborator in place of the loaded one only when no
\* keyring file exists; and AddCollaborator or RemoveCollaborator after it
\* leave in the file every collaborator the file held, but the one named.
C29_NewKeyringKeepsTable ==
    /\ (IsNewKeyring /\ lastKr.cause # "") => lastKr.diskBefore = NoFile
    /\ (IsNewKeyring /\ lastKr.diskBefore.kind = "json") =>
          collaborators = TableOf(lastKr.diskBefore)
    /\ SavedOverFile =>
          \A l \in Logins \ {lastKr.login} :
              TableOf(disk)[l] = TableOf(lastKr.diskBefore)[l]

(***************************************************************************)
(* cmd.AddFile(args) of cmd/add_file.go: .gitattributes is written anew    *)
(* with the one line of the file, then the file is encrypted in place      *)
(* with the DEK manager of the loaded keyring, which holds no raw key.     *)
(* keyringFile is the file .gitenv_keyring, content the content of the     *)
(* file to add; env.stat says whether that file can be read, and its       *)
(* write succeeds where the write of .gitattributes did.                   *)
(***************************************************************************)
ErrReadFile == "failed to read file"
ErrGitAddFile == "failed to add file to git"

AddFileAndEncrypt(args, file, keyringFile, content, rnd, env) ==
    LET attrEntry == Pattern(args[1]) \o <<"\n">>
        written == Attributes(attrEntry)
        e == DEKManagerEncryptFile(<<>>, content, rnd)
    IN  IF Len(args) < 1 THEN Left(file, ErrNoFileSpecified)
        ELSE IF ~env.write THEN Left(file, ErrUpdateAttributes)
        ELSE IF LoadKeyring(keyringFile).err # ""
        THEN Left(written, ErrLoadKeyring)
        ELSE IF ~env.stat THEN Left(written, ErrReadFile)
        ELSE IF e.err # "" THEN Left(written, ErrEncryptFile)
        ELSE IF ~env.git THEN Left(written, ErrGitAddFile)
        ELSE Left(written, "")

(***************************************************************************)
(* The runs of the add and remove commands.                                *)
(***************************************************************************)
\* the paths the commands are given: two names, and a name that begins
\* with a space
FilePaths == { <<"a">>, <<"b">>, <<" ", "a">> }

\* the arguments of a command: none, or a path
ArgLists == { <<>> } \cup { <<p>> : p \in FilePaths }

\* the surroundings of a command: everything works, or one of the read of
\* .gitattributes, its write, the git command and the file to add fails
AttrEnvOk == [read |-> TRUE, write |-> TRUE, git |-> TRUE, stat |-> TRUE]

AttrEnvs ==
    { AttrEnvOk, [AttrEnvOk EXCEPT !.read = FALSE],
      [AttrEnvOk EXCEPT !.write = FALSE], [AttrEnvOk EXCEPT !.git = FALSE],
      [AttrEnvOk EXCEPT !.stat = FALSE] }

\* the add command is followed while .gitattributes has fewer pieces
MaxAttrLen == 12

AttrIdle == lastAttr.op = "none"

AttrCalled(op, args, r) ==
    /\ gitattributes' = r.file
    /\ lastAttr' = [op |-> op, args |-> args, err |-> r.err,
                    before |-> gitattributes]

\* git ez-env add <file>, with addToGitAttributes
CallAddFile ==
    /\ AttrIdle
    /\ Len(gitattributes.content) < MaxAttrLen
    /\ \E args \in ArgLists, env \in AttrEnvs :
          AttrCalled("AddFile", args, AddFile(args, gitattributes, env))
    /\ UNCHANGED <<coreVars, keyringVars, filterVars, proc>>

\* git ez-env add <file>, as in cmd/add_file.go
CallAddFileAndEncrypt ==
    /\ AttrIdle
    /\ Len(gitattributes.content) < MaxAttrLen
    /\ \E args \in ArgLists, env \in AttrEnvs, content \in PlainData,
          rnd \in RandReads(nonceSize) :
          AttrCalled("AddFile", args,
                     AddFileAndEncrypt(args, gitattributes, disk, content,
                                       rnd, env))
    /\ UNCHANGED <<coreVars, keyringVars, filterVars, proc>>

\* git ez-env remove <file>
CallRemoveFile ==
    /\ AttrIdle
    /\ \E args \in ArgLists, env \in AttrEnvs :
          AttrCalled("RemoveFile", args, RemoveFile(args, gitattributes, env))
    /\ UNCHANGED <<coreVars, keyringVars, filterVars, proc>>

\* the keyring file is put there or taken away from outside the commands
AttrFileChanged ==
    /\ AttrIdle
    /\ FileChanged

AttrReturn ==
    /\ lastAttr.op # "none"
    /\ lastAttr' = NoAttrCall
    /\ UNCHANGED <<coreVars, keyringVars, filterVars, proc, gitattributes>>

\* .gitattributes does not exist, or is as init wrote it
InitAttributes ==
    /\ encLog = <<>>
    /\ last = NoCall
    /\ dek = <<>>
    /\ wrapLog = <<>>
    /\ lastDek = NoDekCall
    /\ InitKeyringVars
    /\ secret = NoSecret
    /\ lastFilter = NoFilterCall
    /\ index = [staged |-> 0, blob |-> NoBlob]
    /\ proc = [p \in Procs |-> NoProc]
    /\ gitattributes \in {NoAttributes, setupGitAttributes}
    /\ lastAttr = NoAttrCall

NextAttributes ==
    \/ CallAddFile
    \/ CallAddFileAndEncrypt
    \/ CallRemoveFile
    \/ AttrFileChanged
    \/ AttrReturn

SpecAttributes == InitAttributes /\ [][NextAttributes]_vars

(***************************************************************************)
(* Claims about .gitattributes.                                            *)
(***************************************************************************)
\* the lines of the file that are the line of path: path, a space and
\* filter=ezenv
LinesOf(file, path) ==
    { i \in 1..Len(Split(file.content)) :
         Split(file.content)[i] = Pattern(path) }

\* the command was given a path
OnPath(op) == lastAttr.op = op /\ Len(lastAttr.args) = 1

\* C30: .gitattributes holds at most one line per path.  AddFile of a path
\* that is listed leaves the file as it is; RemoveFile removes every line
\* of the path, and fails and leaves the file as it is when the path is
\* not listed; and neither changes the lines of another path.
C30_OneLinePerPath ==
    /\ \A p \in FilePaths : Cardinality(LinesOf(gitattributes, p)) <= 1
    /\ (OnPath("AddFile") /\ LinesOf(lastAttr.before, lastAttr.args[1]) # {})
          => gitattributes = lastAttr.before
    /\ (OnPath("RemoveFile") /\ lastAttr.err = "")
          => LinesOf(gitattributes, lastAttr.args[1]) = {}
    /\ (OnPath("RemoveFile") /\ LinesOf(lastAttr.before, lastAttr.args[1]) = {})
          => lastAttr.err # "" /\ gitattributes = lastAttr.before
    /\ (OnPath("AddFile") \/ OnPath("RemoveFile")) =>
          \A q \in FilePaths \ {lastAttr.args[1]} :
              Cardinality(LinesOf(gitattributes, q))
                  = Cardinality(LinesOf(lastAttr.before, q))

====
